---------------------------- MODULE Spec2Model ----------------------------
(***************************************************************************)
(* A model of spectro-bridge: the instrument session controller            *)
(* (SpotreadWrapper, src/src/argyll/spotread.js), the expect script it     *)
(* spawns, the instrument adapter (I1ProAdapter), the USB hotplug monitor  *)
(* (DeviceDetector) and the device lifecycle manager (DeviceManager).      *)
(*                                                                         *)
(* JavaScript runs one macrotask (timer, stream event, API call) at a      *)
(* time and drains the promise continuations it queued before the next     *)
(* one: every macrotask is one action guarded by mq = <<>>, and the        *)
(* continuations are run from the queue mq by RunMicrotask.                *)
(*                                                                         *)
(* Text is modelled as a sequence of tokens, one per marker line the       *)
(* expect script prints; a stdout 'data' event delivers any non-empty      *)
(* prefix of what the script has printed and Node has not yet read.        *)
(***************************************************************************)
EXTENDS Integers, Sequences, FiniteSets, TLC

\* ------------------------------------------------------------- bounds
MaxCalls == 3
MaxInFlight == 2
MaxProcs == 2
MaxResults == 2
MaxFacadeResults == 1
MaxPipe == 2
MaxAdapters == 2
MaxStdin == 2
MaxStops == 2
MaxSerials == 1
MaxDeviceCalls == 1
MaxDeviceEvents == 2
MaxRestartProcs == 3
MaxDetachCalls == 2
MaxReattachCalls == 2
MaxListeners == 2

Calls == 1..MaxInFlight
Procs == 1..MaxRestartProcs
Adapters == 1..MaxAdapters

VARIABLES
  spotread,   \* per adapter instance: the fields of its SpotreadWrapper
  proc,       \* per spawned expect process: the script's state, its pipes, and
              \* the closure of the startSessionAndCalibrate call that spawned it
  stops,      \* the stopSession() invocations whose timer or 'close' listener is live
  calls,      \* per API call: the closure of measure(), the promise, the caller's position
  mq,         \* the microtask queue: promise continuations not yet run
  hwEvents,   \* the 'hardware-measurement' events emitted by the last step
  adapters,   \* per adapter instance: the fields of the I1ProAdapter
  detector,   \* the DeviceDetector's fields and its subscriptions to usb events
  calibrations, \* CalibrationManager.calibrations: calibration key -> record
  mgr,        \* the DeviceManager's fields, its cleanup timers and the
              \* attach handlers suspended in adapter.connect()
  config,     \* the Config store: the defaults overlaid with the user's file
  parser,     \* a text handed to parseConsoleOutput, and what it returned
  now,        \* Date.now(), in seconds
  made,       \* the number of API calls made so far
  usbLog      \* per attachment key: the attach and detach events handled so far,
              \* and the number of registrations (devices.set) made for it

vars == <<spotread, proc, stops, calls, mq, hwEvents, adapters, detector,
          calibrations, mgr, config, parser, now, made, usbLog>>

\* ------------------------------------------------------------- text
Tok(k, id) == [k |-> k, id |-> id]

\* What identifies the measurement a result line or spectral block belongs to:
\* its number, and whether the script announced it as hardware-triggered.
\* NoId is carried by the markers that hold no data.
NoId == [n |-> 0, hw |-> FALSE]

\* String.prototype.includes for a marker
Includes(text, k) == \E i \in DOMAIN text : text[i].k = k

\* String.prototype.lastIndexOf for a marker; 0 stands for JavaScript's -1
LastIndexOf(text, k) ==
  IF Includes(text, k)
    THEN CHOOSE i \in DOMAIN text :
           /\ text[i].k = k
           /\ \A j \in DOMAIN text : text[j].k = k => j <= i
    ELSE 0

FirstIdOf(text, k) ==
  IF Includes(text, k)
    THEN text[CHOOSE i \in DOMAIN text :
                /\ text[i].k = k
                /\ \A j \in DOMAIN text : text[j].k = k => i <= j].id
    ELSE NoId

LastIdOf(text, k) ==
  IF Includes(text, k) THEN text[LastIndexOf(text, k)].id ELSE NoId

\* parseConsoleOutput: Lab/XYZ come from the first match (the result line printed
\* with the START marker), the spectral map keeps the last value written per
\* wavelength (the block printed before the END marker).  ok = FALSE is the
\* thrown 'No measurement data found in output'.
parseConsoleOutput(text) ==
  LET lab  == FirstIdOf(text, "START")
      spec == LastIdOf(text, "END")
  IN [ok |-> (lab # NoId \/ spec # NoId), Lab |-> lab, spectral |-> spec]

NoData == [ok |-> FALSE, Lab |-> NoId, spectral |-> NoId]

\* the serial number the driver prints in its banner, if it prints one; ""
\* stands for null
DriverSerial == "SN1"

\* what calibrate() resolves with (lines 274-277)
CalibrateResult(serialNumber) ==
  [success |-> TRUE, deviceInfo |-> [serialNumber |-> serialNumber]]

\* ------------------------------------------------------------- initial values
\* What became of the last result span the wrapper saw completed on a process:
\* whether a measure() trigger was outstanding, whether a call was resolved,
\* how many 'hardware-measurement' events were emitted.
NoSpan == [seen |-> FALSE, trigger |-> FALSE, resolved |-> FALSE, events |-> 0]

InitSpotread ==
  [expectProcess |-> 0, isCalibrated |-> FALSE, outputBuffer |-> <<>>,
   pendingResolve |-> 0, pendingReject |-> 0, scriptPath |-> 0,
   measurementPending |-> FALSE, hardwareMeasurementPending |-> FALSE]

InitProc ==
  [st |-> "none", owner |-> 0, phase |-> "waitPrompt", swTrig |-> FALSE, span |-> NoId,
   stdin |-> <<>>, pipe |-> <<>>, nRes |-> 0,
   calTimer |-> FALSE, calibrationComplete |-> FALSE,
   readyForMeasurement |-> FALSE, serialNumber |-> "", calCall |-> 0,
   lastSpan |-> NoSpan]

InitAdapter ==
  [st |-> "none", model |-> "", serialNumber |-> "Unknown", usbAddress |-> 0,
   connected |-> FALSE, busy |-> FALSE,
   calibrationTimestamp |-> -1, calibrationExpiresAt |-> -1]

\* listeners: how many times _onAttach/_onDetach are subscribed to the usb
\* events; scanning: the exec of detectDevicesWithSpotread has not called back
InitDetector ==
  [monitoring |-> FALSE, paused |-> FALSE, listeners |-> 0, scanning |-> FALSE,
   handlers |-> 0]  \* the manager's subscriptions to the detector's events

\* devices is the Map in insertion order, recentlyDetached the Map as a set of
\* entries; timers are the armed 5 s cleanup timers, connecting the attach
\* handlers awaiting adapter.connect()
InitMgr ==
  [devices |-> <<>>, activeDeviceId |-> <<>>, pendingConnections |-> {},
   recentlyDetached |-> {}, timers |-> {}, connecting |-> {}]

InitCall ==
  [op |-> "none", a |-> 0, via |-> "", pc |-> "idle", res |-> "none", err |-> "", val |-> NoData,
   by |-> "", out |-> "none", entered |-> FALSE, paused |-> FALSE,
   resumed |-> FALSE, startIdx |-> 0, mTimer |-> FALSE, poll |-> FALSE]

\* ------------------------------------------------------------- the world
\* The code of one handler is a sequence of calls that each change several
\* objects; it is modelled as a composition of functions on this record.
W == [s |-> spotread, proc |-> proc, stops |-> stops, calls |-> calls,
      mq |-> mq, hw |-> <<>>, ad |-> adapters, det |-> detector,
      cal |-> calibrations, mgr |-> mgr, log |-> usbLog]

Commit(w) ==
  /\ spotread' = w.s
  /\ proc' = w.proc
  /\ stops' = w.stops
  /\ calls' = w.calls
  /\ mq' = w.mq
  /\ hwEvents' = w.hw
  /\ adapters' = w.ad
  /\ detector' = w.det
  /\ calibrations' = w.cal
  /\ mgr' = w.mgr
  /\ config' = config
  /\ parser' = parser


\* ------------------------------------------------------------- promises
\* resolve()/reject() of the promise returned to call c; settling a settled
\* promise does nothing.  The awaiting caller continues in a microtask.
Resolve(w, c, v, how) ==
  IF c = 0 \/ w.calls[c].res # "pending" THEN w
  ELSE [w EXCEPT !.calls[c].res = "resolved", !.calls[c].val = v,
                 !.calls[c].by = how,
                 !.mq = Append(@, [k |-> "settled", c |-> c])]

Reject(w, c, e) ==
  IF c = 0 \/ w.calls[c].res # "pending" THEN w
  ELSE [w EXCEPT !.calls[c].res = "rejected", !.calls[c].err = e,
                 !.mq = Append(@, [k |-> "settled", c |-> c])]

\* ------------------------------------------------------------- SpotreadWrapper
hasActiveSession(s) == s.expectProcess # 0 /\ s.isCalibrated

cleanup(w, a) == [w EXCEPT !.s[a] = InitSpotread]

\* resolve() of the stopSession() promises awaited by the calls of ws, a
\* sequence in the order the stops were requested (0: awaited by no one)
RECURSIVE ResolveStops(_, _)
ResolveStops(w, ws) ==
  IF ws = <<>> THEN w
  ELSE ResolveStops(IF Head(ws) # 0
                      THEN [w EXCEPT !.mq = Append(@, [k |-> "stopped", c |-> Head(ws)])]
                      ELSE w,
                    Tail(ws))

\* stopSession() of adapter a's wrapper, lines 503-535, awaited by call
\* waiter (0: by no one)
stopSession(w, a, waiter) ==
  IF w.s[a].expectProcess = 0
    THEN ResolveStops(w, <<waiter>>)
    ELSE LET p == w.s[a].expectProcess IN
         [w EXCEPT !.stops = Append(@, [a |-> a, proc |-> p, timer |-> TRUE,
                                        waiter |-> waiter]),
                   !.proc[p].stdin = IF w.proc[p].st = "running"
                                       THEN Append(@, "QUIT") ELSE @]

kill(w, p) ==
  IF p # 0 /\ w.proc[p].st = "running"
    THEN [w EXCEPT !.proc[p] = [@ EXCEPT !.st = "exited", !.phase = "waitPrompt",
                                         !.swTrig = FALSE, !.span = NoId,
                                         !.stdin = <<>>, !.nRes = 0]]
    ELSE w

\* the promise executor of startSessionAndCalibrate (lines 216-320): write the
\* script, reset the buffer, spawn, arm the 60 s timer, attach the handlers.
\* Whether the spawn succeeded is known on the next tick ("spawned").
spawnSession(w, c) ==
  LET a == w.calls[c].a
      p == CHOOSE q \in Procs :
             /\ w.proc[q].st = "none"
             /\ \A r \in Procs : r < q => w.proc[r].st # "none"
  IN [w EXCEPT !.s[a].scriptPath = p, !.s[a].outputBuffer = <<>>,
               !.s[a].isCalibrated = FALSE, !.s[a].expectProcess = p,
               !.proc[p] = [InitProc EXCEPT !.st = "running", !.owner = a,
                                            !.calTimer = TRUE, !.calCall = c],
               !.calls[c].pc = "awaitCal",
               !.mq = Append(@, [k |-> "spawned", c |-> p])]

\* startSessionAndCalibrate up to its first suspension
startSessionAndCalibrate(w, c) ==
  IF w.s[w.calls[c].a].expectProcess # 0
    THEN stopSession([w EXCEPT !.calls[c].pc = "awaitStop"], w.calls[c].a, c)
    ELSE spawnSession(w, c)

\* handleMeasurementOutput(text), lines 342-395; the buffer already holds text
handleMeasurementOutput(w, a, text) ==
  LET hp1 == IF Includes(text, "HW_DET") THEN TRUE
                                         ELSE w.s[a].hardwareMeasurementPending
      isHardware == IF Includes(text, "SW_DET") THEN FALSE ELSE hp1
      buf == w.s[a].outputBuffer
      resultStartIndex == LastIndexOf(buf, "START")
      resultEndIndex == LastIndexOf(buf, "END")
      spectralData == parseConsoleOutput(SubSeq(buf, resultStartIndex, resultEndIndex))
  IN IF ~Includes(text, "END")
       THEN [w EXCEPT !.s[a].hardwareMeasurementPending = isHardware]
       ELSE LET w1 == [w EXCEPT !.s[a].hardwareMeasurementPending = FALSE] IN
            IF resultStartIndex >= 1 /\ resultEndIndex > resultStartIndex
              THEN IF ~spectralData.ok
                     THEN w1   \* parseConsoleOutput throws inside the 'data' listener
                   ELSE IF isHardware
                     THEN [w1 EXCEPT !.hw = Append(@, [a |-> a, data |-> spectralData])]
                     ELSE IF w1.s[a].pendingResolve # 0
                            THEN [Resolve(w1, w1.s[a].pendingResolve, spectralData,
                                          "handler")
                                    EXCEPT !.s[a].pendingResolve = 0,
                                           !.s[a].pendingReject = 0,
                                           !.s[a].measurementPending = FALSE]
                            ELSE w1
              ELSE w1

\* the stdout 'data' handler of the process spawned for a calibrate call,
\* lines 246-288.  It is attached to that process's stream and writes the
\* fields of the wrapper, whichever process the wrapper now refers to.
onStdoutData(w, p, text) ==
  LET a  == w.proc[p].owner
      w1 == [w EXCEPT !.s[a].outputBuffer = @ \o text,
                      !.proc[p].serialNumber =
                         IF Includes(text, "SERIAL") THEN DriverSerial ELSE @,
                      !.proc[p].calibrationComplete =
                         @ \/ Includes(text, "CAL_COMPLETE")]
      w2 == IF Includes(text, "READY") /\ ~w1.proc[p].readyForMeasurement
              THEN Resolve([w1 EXCEPT !.proc[p].readyForMeasurement = TRUE,
                                      !.s[a].isCalibrated = TRUE,
                                      !.proc[p].calTimer = FALSE],
                           w1.proc[p].calCall,
                           CalibrateResult(w1.proc[p].serialNumber), "ready")
              ELSE w1
      \* handleHardwareMeasurement(), line 336
      w3 == IF Includes(text, "HW_DET")
              THEN [w2 EXCEPT !.s[a].hardwareMeasurementPending = TRUE] ELSE w2
  IN handleMeasurementOutput(w3, a, text)

\* the 'close' handler without the branch for a session that was not ready
\* (lines 307-315 dropped)
onCloseStartNoReject(w, p) ==
  cleanup([w EXCEPT !.proc[p].calTimer = FALSE], w.proc[p].owner)

\* the 'close' handler attached by startSessionAndCalibrate, lines 303-319
onCloseStart(w, p) ==
  LET a  == w.proc[p].owner
      w1 == [w EXCEPT !.proc[p].calTimer = FALSE]
      hasTimeout == Includes(w1.s[a].outputBuffer, "EXPECT_TIMEOUT")
  IN IF ~w1.proc[p].readyForMeasurement
       THEN Reject(cleanup(w1, a), w1.proc[p].calCall,
                   IF hasTimeout THEN "Calibration failed: timeout waiting for prompt"
                                 ELSE "Calibration failed: process exited")
       ELSE cleanup(w1, a)

\* the 'close' handlers attached by the stopSession() invocations on p,
\* lines 521-525: clearTimeout, cleanup, resolve
onCloseStops(w, p) ==
  LET Mine(r) == r.proc = p
      Others(r) == r.proc # p
      mine == SelectSeq(w.stops, Mine)
  IN IF mine = <<>> THEN w
     ELSE ResolveStops([cleanup(w, w.proc[p].owner)
                          EXCEPT !.stops = SelectSeq(@, Others)],
                       [i \in DOMAIN mine |-> mine[i].waiter])

\* the 60 s timer of startSessionAndCalibrate, lines 238-244
calibrationTimeout(w, p) ==
  LET w1 == [w EXCEPT !.proc[p].calTimer = FALSE]
  IN IF ~w1.proc[p].calibrationComplete
       THEN Reject(stopSession(w1, w1.proc[p].owner, 0), w1.proc[p].calCall,
                   "Calibration timeout")
       ELSE w1

\* the 5 s timer of stopSession, lines 512-519: it kills whatever process the
\* wrapper refers to when it fires
stopTimeout(w, i) ==
  LET r  == w.stops[i]
      w1 == [w EXCEPT !.stops[i].timer = FALSE, !.stops[i].waiter = 0]
      w2 == cleanup(kill(w1, w1.s[r.a].expectProcess), r.a)
  IN ResolveStops(w2, <<r.waiter>>)

\* measure() without the test of measurementPending (lines 405-407 dropped)
measureNoPendingCheck(w, c) ==
  LET a == w.calls[c].a IN
  IF ~hasActiveSession(w.s[a])
    THEN Reject(w, c, "No active calibrated session")
  ELSE LET p == w.s[a].expectProcess IN
       [w EXCEPT !.s[a].measurementPending = TRUE,
                 !.s[a].pendingResolve = c, !.s[a].pendingReject = c,
                 !.calls[c].startIdx = Len(w.s[a].outputBuffer),
                 !.calls[c].mTimer = TRUE, !.calls[c].poll = TRUE,
                 !.calls[c].pc = "awaitMeasure",
                 !.proc[p].stdin = IF w.proc[p].st = "running"
                                     THEN Append(@, "MEASURE") ELSE @]

\* measure(), lines 400-490, for call c
measure(w, c) ==
  LET a == w.calls[c].a IN
  IF ~hasActiveSession(w.s[a])
    THEN Reject(w, c, "No active calibrated session")
  ELSE IF w.s[a].measurementPending
    THEN Reject(w, c, "Measurement already in progress")
  ELSE LET p == w.s[a].expectProcess IN
       [w EXCEPT !.s[a].measurementPending = TRUE,
                 !.s[a].pendingResolve = c, !.s[a].pendingReject = c,
                 !.calls[c].startIdx = Len(w.s[a].outputBuffer),
                 !.calls[c].mTimer = TRUE, !.calls[c].poll = TRUE,
                 !.calls[c].pc = "awaitMeasure",
                 !.proc[p].stdin = IF w.proc[p].st = "running"
                                     THEN Append(@, "MEASURE") ELSE @]

\* the 60 s timer of measure(), lines 418-426
measureTimeout(w, c) ==
  LET a  == w.calls[c].a
      w1 == [w EXCEPT !.calls[c].mTimer = FALSE]
  IN IF w1.s[a].measurementPending
       THEN Reject([w1 EXCEPT !.s[a].measurementPending = FALSE,
                              !.s[a].pendingResolve = 0, !.s[a].pendingReject = 0],
                   c, "Measurement timeout")
       ELSE w1

\* checkForResult, lines 429-473, polled every 100 ms by call c
checkForResult(w, c) ==
  LET a == w.calls[c].a
      newOutput == SubSeq(w.s[a].outputBuffer, w.calls[c].startIdx + 1,
                          Len(w.s[a].outputBuffer))
      spectralData == parseConsoleOutput(newOutput)
  IN IF ~w.s[a].measurementPending
       THEN [w EXCEPT !.calls[c].mTimer = FALSE, !.calls[c].poll = FALSE,
                      !.calls[c].startIdx = 0]
     ELSE IF \/ Includes(newOutput, "END")
             \/ (Includes(newOutput, "START") /\ Includes(newOutput, "READY"))
       THEN LET w1 == [w EXCEPT !.s[a].measurementPending = FALSE,
                                !.calls[c].mTimer = FALSE, !.calls[c].poll = FALSE,
                                !.calls[c].startIdx = 0]
            IN IF ~spectralData.ok
                 THEN w1   \* parseConsoleOutput throws inside the timer callback
                 ELSE IF w1.s[a].pendingResolve # 0
                        THEN [Resolve(w1, w1.s[a].pendingResolve, spectralData,
                                      "fallback")
                                EXCEPT !.s[a].pendingResolve = 0,
                                       !.s[a].pendingReject = 0]
                        ELSE w1
     ELSE w   \* the script never prints MEASUREMENT_TIMEOUT: keep checking

\* ------------------------------------------------------------- parseConsoleOutput
\* The text of a result span, line by line.  A number is its sign and its
\* magnitude as printed: the patterns for spectral values ([\d.]+) stop at a
\* minus sign, the patterns for Lab and XYZ ([\d.-]+) read it.
\*   "xyz"    Result is XYZ: X Y Z        "lab"    D50 Lab: L a b
\*   "tok"    <a> nm = <v>                "colon"  <a>: <v>
\*   "block"  Spectrum: <v> <v> ...       "cols"   <a>  <v>
\*   "header" Spectrum from <a> to <b> nm in <n> steps
\*   "values" <v>, <v>, ...
\* A line is [k, a, b, n, vals], a number [neg, mag].
NotParsed(text) ==
  [consoleOutput |-> text,
   result |-> [done |-> FALSE, ok |-> FALSE, spectral |-> <<>>, Lab |-> <<>>, XYZ |-> <<>>]]

\* parseConsoleOutput, spotread.js lines 656-840, on a text in which a list of
\* values is either the last line or followed by a line that begins with
\* "Result" (what the look-ahead of line 785 accepts).  spectral is the object
\* the code fills: a later value for a wavelength replaces an earlier one.
parseConsoleText(text) ==
  LET Of(k) == SelectSeq(text, LAMBDA l : l.k = k)
      InBand(wl) == wl >= 380 /\ wl <= 730
      \* the pairs a strategy pushes, in order
      Pairs(ls) == [i \in DOMAIN ls |-> [wl |-> ls[i].a, v |-> ls[i].vals[1]]]
      Positive(l) == ~l.vals[1].neg
      \* lines 664-681
      Lab == IF Of("lab") # <<>> THEN Of("lab")[1].vals ELSE <<>>
      XYZ == IF Of("xyz") # <<>> THEN Of("xyz")[1].vals ELSE <<>>
      \* Format 1, lines 689-700
      f1 == Pairs(SelectSeq(Of("tok"), Positive))
      \* Format 2, lines 702-714
      f2 == Pairs(SelectSeq(Of("colon"), LAMBDA l : Positive(l) /\ InBand(l.a)))
      \* Format 3, lines 716-728
      f3 == Pairs(SelectSeq(Of("tok"), LAMBDA l : Positive(l) /\ InBand(l.a)))
      \* Format 4, lines 730-747: the values up to the first character that is
      \* not a digit, a point or blank, at 380 nm and every 10 nm after it
      Unsigned(vs) ==
        IF \E i \in DOMAIN vs : vs[i].neg
          THEN SubSeq(vs, 1, (CHOOSE i \in DOMAIN vs :
                                /\ vs[i].neg
                                /\ \A j \in DOMAIN vs : vs[j].neg => i <= j) - 1)
          ELSE vs
      Stepped(vs, from, to, step) ==
        LET kept == {i \in DOMAIN vs : from + (i - 1) * step <= to}
        IN [i \in kept |-> [wl |-> from + (i - 1) * step, v |-> vs[i]]]
      f4 == IF Of("block") # <<>>
              THEN Stepped(Unsigned(Of("block")[1].vals), 380, 730, 10)
              ELSE <<>>
      \* Format 5, lines 749-766
      f5 == Pairs(SelectSeq(Of("cols"), LAMBDA l : Positive(l) /\ InBand(l.a)))
      \* Format 6, lines 768-811
      headerIndex == IF Of("header") # <<>>
                       THEN CHOOSE i \in DOMAIN text :
                              /\ text[i].k = "header"
                              /\ \A j \in DOMAIN text : text[j].k = "header" => i <= j
                       ELSE 0
      valuesMatch ==
        /\ headerIndex > 0 /\ headerIndex < Len(text)
        /\ text[headerIndex + 1].k = "values"
        /\ \A i \in DOMAIN text[headerIndex + 1].vals : ~text[headerIndex + 1].vals[i].neg
        /\ headerIndex + 1 < Len(text) => text[headerIndex + 2].k = "xyz"
      f6 == IF valuesMatch
              THEN LET h == text[headerIndex]
                       step == IF h.n > 1
                                 THEN (2 * (h.b - h.a) + (h.n - 1)) \div (2 * (h.n - 1))
                                 ELSE 10
                   IN Stepped(text[headerIndex + 1].vals, h.a, h.b, step)
              ELSE <<>>
      found == IF f1 # <<>> THEN f1
               ELSE IF f2 # <<>> THEN f2
               ELSE IF f3 # <<>> THEN f3
               ELSE IF f4 # <<>> THEN f4
               ELSE IF f5 # <<>> THEN f5
               ELSE f6
      spectral == [wl \in {found[i].wl : i \in DOMAIN found} |->
                     found[CHOOSE i \in DOMAIN found :
                             /\ found[i].wl = wl
                             /\ \A j \in DOMAIN found : found[j].wl = wl => j <= i].v]
  IN [done |-> TRUE,
      ok |-> (found # <<>> \/ Lab # <<>> \/ XYZ # <<>>),  \* lines 815-818
      spectral |-> spectral, Lab |-> Lab, XYZ |-> XYZ]

\* ------------------------------------------------------------- the expect script
\* generatePersistentExpectScript, lines 86-203.  The script prints a marker
\* line for each prompt of the driver it recognises; what the driver prints,
\* and when, is the environment's choice.
\* A call that has returned to its caller and whose timers are gone.
Returned(c) == calls[c].pc = "done" /\ ~calls[c].poll /\ ~calls[c].mTimer

\* No continuation is queued: the event loop takes the next macrotask.
Idle == mq = <<>> /\ \A c \in Calls : ~Returned(c)

\* Node has read everything the processes have printed.  What a process prints
\* does not depend on what Node does in between, so letting the 'data' event
\* come first loses no behaviour.
Quiet == \A q \in Procs : proc[q].pipe = <<>>

Running(p) == proc[p].st = "running" /\ Idle

\* An exited process keeps its unread output and the closure of the call that
\* spawned it; the script's own state is gone.
Exited(r) ==
  [r EXCEPT !.st = "exited", !.phase = "waitPrompt", !.swTrig = FALSE,
            !.span = NoId, !.stdin = <<>>, !.nRes = 0]

\* Once 'close' has been delivered no handler of the process runs again.
Closed == [InitProc EXCEPT !.st = "closed"]

Emit(p, toks, upd) ==
  /\ Len(proc[p].pipe) + Len(toks) <= MaxPipe
  /\ proc' = [proc EXCEPT ![p] = [upd EXCEPT !.pipe = proc[p].pipe \o toks]]
  /\ hwEvents' = <<>>
  /\ UNCHANGED <<spotread, stops, calls, mq, adapters, detector, calibrations, config, parser,
                 mgr, now, made, usbLog>>

\* lines 95-104: the calibration prompt is recognised.  The script echoes what
\* the driver prints (log_user 1, line 89): its banner may hold a serial number.
ScriptPrompt(p, serials) ==
  /\ Running(p) /\ proc[p].phase = "waitPrompt"
  /\ Emit(p, IF serials > 0 THEN <<Tok("SERIAL", NoId), Tok("PROMPT", NoId)>>
                            ELSE <<Tok("PROMPT", NoId)>>,
          [proc[p] EXCEPT !.phase = "waitComplete"])

\* lines 107-110
ScriptCalComplete(p) ==
  /\ Running(p) /\ proc[p].phase = "waitComplete"
  /\ Emit(p, <<Tok("CAL_COMPLETE", NoId)>>, [proc[p] EXCEPT !.phase = "waitReady"])

\* lines 111-114: puts CALIBRATION_FAILED; exit 1
ScriptCalFailed(p) ==
  /\ Running(p) /\ proc[p].phase = "waitComplete"
  /\ Emit(p, <<Tok("CAL_FAILED", NoId)>>, Exited(proc[p]))

\* the timeout branch of the three expect blocks: puts EXPECT_TIMEOUT; exit 1
ScriptExpectTimeout(p) ==
  /\ Running(p) /\ proc[p].phase \in {"waitPrompt", "waitComplete", "waitReady"}
  /\ Emit(p, <<Tok("EXPECT_TIMEOUT", NoId)>>, Exited(proc[p]))

\* lines 122-125
ScriptReady(p) ==
  /\ Running(p) /\ proc[p].phase = "waitReady"
  /\ Emit(p, <<Tok("READY", NoId)>>, [proc[p] EXCEPT !.phase = "loop"])

\* handle_stdin, lines 136-159; stdin is read only once the event loop runs
ScriptStdin(p) ==
  /\ Running(p) /\ proc[p].phase \in {"loop", "bare"} /\ proc[p].stdin # <<>>
  /\ LET cmd == Head(proc[p].stdin) IN
     proc' = [proc EXCEPT ![p] = IF cmd = "QUIT" THEN Exited(@)
                                   ELSE [@ EXCEPT !.stdin = Tail(@), !.swTrig = TRUE]]
  /\ hwEvents' = <<>>
  /\ UNCHANGED <<spotread, stops, calls, mq, adapters, detector, calibrations, config, parser,
                 mgr, now, made, usbLog>>

\* expect_background, lines 167-181: a result line of the driver is matched
ScriptResult(p, maxResults) ==
  /\ Running(p) /\ proc[p].phase = "loop" /\ proc[p].span = NoId
  /\ proc[p].nRes < maxResults
  /\ LET id == [n |-> proc[p].nRes + 1, hw |-> ~proc[p].swTrig] IN
     Emit(p, <<Tok(IF proc[p].swTrig THEN "SW_DET" ELSE "HW_DET", NoId),
               Tok("START", id)>>,
          [proc[p] EXCEPT !.swTrig = FALSE, !.span = id, !.nRes = id.n])

\* lines 183-189: the spectral block and the next prompt are matched
ScriptSpectrum(p) ==
  /\ Running(p) /\ proc[p].phase = "loop" /\ proc[p].span # NoId
  /\ Emit(p, <<Tok("END", proc[p].span), Tok("READY", NoId)>>,
          [proc[p] EXCEPT !.span = NoId])

\* lines 191-197: the next prompt is matched with no spectral block before it;
\* the result line was consumed by the first pattern, so no END is printed
ScriptReadyPrompt(p) ==
  /\ Running(p) /\ proc[p].phase = "loop" /\ proc[p].span # NoId
  /\ Emit(p, <<Tok("READY", NoId)>>, [proc[p] EXCEPT !.span = NoId])

\* A result span in which parseConsoleOutput finds no data: the result line
\* passes the script's pattern (line 168, no blank required after the colons)
\* but not the parser's (lines 668 and 679), and the values line of the
\* spectral block is empty.  The script prints the same markers around it;
\* phase "bare" is the script between the two halves of such a span.
ScriptUnreadable(p, maxResults) ==
  \/ /\ Running(p) /\ proc[p].phase = "loop" /\ proc[p].span = NoId
     /\ proc[p].nRes < maxResults
     /\ Emit(p, <<Tok(IF proc[p].swTrig THEN "SW_DET" ELSE "HW_DET", NoId),
                  Tok("START", NoId)>>,
             [proc[p] EXCEPT !.swTrig = FALSE, !.phase = "bare", !.nRes = @ + 1])
  \/ /\ Running(p) /\ proc[p].phase = "bare"
     /\ Emit(p, <<Tok("END", NoId), Tok("READY", NoId)>>,
             [proc[p] EXCEPT !.phase = "loop"])

\* the process dies on its own (the driver crashes, the instrument is unplugged)
ProcExit(p) ==
  /\ Running(p)
  /\ proc' = [proc EXCEPT ![p] = Exited(@)]
  /\ hwEvents' = <<>>
  /\ UNCHANGED <<spotread, stops, calls, mq, adapters, detector, calibrations, config, parser,
                 mgr, now, made, usbLog>>

\* ------------------------------------------------------------- Node events
\* the text completes a result span: it holds the END marker, and the buffer
\* it is appended to holds a START marker before that END (lines 355-361)
CompletesSpan(buf, text) ==
  /\ Includes(text, "END")
  /\ LastIndexOf(buf \o text, "START") >= 1
  /\ LastIndexOf(buf \o text, "END") > LastIndexOf(buf \o text, "START")

OnStdoutData(p, n) ==
  /\ Idle /\ proc[p].st \in {"running", "exited"}
  /\ n \in 1..Len(proc[p].pipe)
  /\ LET text == SubSeq(proc[p].pipe, 1, n)
         s == spotread[proc[p].owner]
         w == onStdoutData([W EXCEPT !.proc[p].pipe = SubSeq(@, n + 1, Len(@))],
                           p, text)
     IN Commit(IF CompletesSpan(s.outputBuffer, text)
                 THEN [w EXCEPT !.proc[p].lastSpan =
                         [seen |-> TRUE, trigger |-> s.measurementPending,
                          resolved |-> \E c \in Calls : /\ calls[c].res = "pending"
                                                        /\ w.calls[c].res = "resolved",
                          events |-> Len(w.hw)]]
                 ELSE w)
  /\ UNCHANGED <<now, made, usbLog>>

\* 'close' is emitted once the process has exited and its streams have ended
OnClose(p) ==
  /\ Idle /\ proc[p].st = "exited" /\ proc[p].pipe = <<>>
  /\ Commit([onCloseStops(onCloseStart(W, p), p) EXCEPT !.proc[p] = Closed])
  /\ UNCHANGED <<now, made, usbLog>>

CalibrationTimeout(p) ==
  /\ Idle /\ Quiet /\ proc[p].calTimer
  /\ Commit(calibrationTimeout(W, p))
  /\ UNCHANGED <<now, made, usbLog>>

StopTimeout(i) ==
  /\ Idle /\ Quiet /\ i \in DOMAIN stops /\ stops[i].timer
  /\ Commit(stopTimeout(W, i))
  /\ UNCHANGED <<now, made, usbLog>>

MeasureTimeout(c) ==
  /\ Idle /\ Quiet /\ calls[c].mTimer
  /\ Commit(measureTimeout(W, c))
  /\ UNCHANGED <<now, made, usbLog>>

CheckForResult(c) ==
  /\ Idle /\ Quiet /\ calls[c].poll
  /\ Commit(checkForResult(W, c))
  /\ UNCHANGED <<now, made, usbLog>>


\* ------------------------------------------------------------- the ledger
\* the window written into the adapter's calibrate()
ExpiryHours == 8
ExpiryWindow == ExpiryHours * 60 * 60

\* calibration.expiryHours: the default of the Config store, and the values the
\* store can hold once the user's file is laid over the defaults
DefaultExpiryHours == 8

ExpiryHoursChoices == {DefaultExpiryHours, 24}

\* Config.getCalibrationExpiryHours, part_000 lines 106-108
getCalibrationExpiryHours(cfg) == cfg.expiryHours

\* DeviceManager.getCalibrationKey, part_007 lines 58-64
getCalibrationKey(info) ==
  <<"X-Rite", info.model,
    IF info.serialNumber # "" /\ info.serialNumber # "Unknown"
      THEN info.serialNumber ELSE "">>

\* CalibrationManager.setCalibration, part_004 lines 22-33
setCalibration(cal, key, data) ==
  [k \in DOMAIN cal \cup {key} |->
     IF k = key THEN [calibrated |-> TRUE, timestamp |-> data.timestamp,
                      expiresAt |-> data.expiresAt]
                ELSE cal[k]]

\* CalibrationManager.getCalibrationStatus, part_004 lines 35-64
getCalibrationStatus(cal, key, t) ==
  IF key \notin DOMAIN cal
    THEN [calibrated |-> FALSE, timestamp |-> -1, expiresAt |-> -1, expired |-> FALSE]
  ELSE IF t > cal[key].expiresAt
    THEN [calibrated |-> FALSE, timestamp |-> cal[key].timestamp,
          expiresAt |-> cal[key].expiresAt, expired |-> TRUE]
  ELSE [calibrated |-> TRUE, timestamp |-> cal[key].timestamp,
        expiresAt |-> cal[key].expiresAt, expired |-> FALSE]

\* ------------------------------------------------------------- DeviceDetector
\* pause(), lines 171-184
pause(d) ==
  IF ~d.monitoring \/ d.paused THEN d
  ELSE [d EXCEPT !.listeners = IF @ > 0 THEN @ - 1 ELSE 0, !.paused = TRUE]

\* resume() without its guard (line 190 dropped)
resumeNoGuard(d) ==
  [d EXCEPT !.listeners = @ + 1, !.paused = FALSE]

\* resume(), lines 189-204
resume(d) ==
  IF ~d.monitoring \/ ~d.paused THEN d
  ELSE [d EXCEPT !.listeners = @ + 1, !.paused = FALSE]

\* ------------------------------------------------------------- I1ProAdapter
\* calibrate() without the test of the busy flag (lines 120-122 dropped)
adapterCalibrateNoBusyCheck(w, c) ==
  LET a == w.calls[c].a IN
  IF ~w.ad[a].connected THEN Reject(w, c, "Device not connected")
  ELSE startSessionAndCalibrate([w EXCEPT !.ad[a].busy = TRUE,
                                          !.calls[c].entered = TRUE], c)

\* calibrate(), lines 115-131, up to the await of spotread.calibrate()
adapterCalibrate(w, c) ==
  LET a == w.calls[c].a IN
  IF ~w.ad[a].connected THEN Reject(w, c, "Device not connected")
  ELSE IF w.ad[a].busy THEN Reject(w, c, "Device is busy")
  ELSE startSessionAndCalibrate([w EXCEPT !.ad[a].busy = TRUE,
                                          !.calls[c].entered = TRUE], c)

\* measure() without its test for a calibrated session (lines 167-170 dropped)
adapterMeasureNoSessionCheck(w, c) ==
  LET a == w.calls[c].a IN
  IF ~w.ad[a].connected THEN Reject(w, c, "Device not connected")
  ELSE IF w.ad[a].busy THEN Reject(w, c, "Device is busy")
  ELSE measure([w EXCEPT !.ad[a].busy = TRUE, !.calls[c].entered = TRUE], c)

\* measure(), lines 158-181, up to the await of spotread.measure()
adapterMeasure(w, c) ==
  LET a == w.calls[c].a IN
  IF ~w.ad[a].connected THEN Reject(w, c, "Device not connected")
  ELSE IF w.ad[a].busy THEN Reject(w, c, "Device is busy")
  ELSE IF ~hasActiveSession(w.s[a]) THEN Reject(w, c, "Device not calibrated")
  ELSE measure([w EXCEPT !.ad[a].busy = TRUE, !.calls[c].entered = TRUE], c)

\* the rest of calibrate()/measure() once the wrapper's promise has settled:
\* lines 133-155 and 183-215.  The finally block runs only for a call that
\* passed the precondition checks.
adapterSettled(w, c, t) ==
  LET a == w.calls[c].a IN
  IF ~w.calls[c].entered THEN w
  ELSE IF w.calls[c].op = "calibrate" /\ w.calls[c].res = "resolved"
    THEN [w EXCEPT !.ad[a].serialNumber =
                      IF w.calls[c].val.deviceInfo.serialNumber # ""
                        THEN w.calls[c].val.deviceInfo.serialNumber ELSE @,
                   !.ad[a].calibrationTimestamp = t,
                   !.ad[a].calibrationExpiresAt = t + ExpiryWindow,
                   !.ad[a].busy = FALSE]
  ELSE [w EXCEPT !.ad[a].busy = FALSE]

\* disconnect(), lines 88-100: the part after the await
disconnected(w, a) ==
  [w EXCEPT !.ad[a].connected = FALSE, !.ad[a].calibrationTimestamp = -1,
            !.ad[a].calibrationExpiresAt = -1]

\* disconnect() up to its await; the stopSession() it awaits is recorded with
\* the waiter -a
disconnect(w, a) ==
  IF hasActiveSession(w.s[a]) THEN stopSession(w, a, -a) ELSE disconnected(w, a)

\* ------------------------------------------------------------- the facade
\* the facade storing a calibration whatever the adapter's promise settled to
facadeSettledAlwaysStores(w, c) ==
  LET a == w.calls[c].a IN
  [w EXCEPT !.cal = setCalibration(@, getCalibrationKey(w.ad[a]),
                       [timestamp |-> w.ad[a].calibrationTimestamp,
                        expiresAt |-> w.ad[a].calibrationExpiresAt]),
            !.calls[c].pc = "settle05"]

\* getActiveDevice().calibrate / .measure, part_007 lines 257-314, after the
\* adapter's promise has settled: store the calibration, then the finally
\* block starts its 500 ms delay
facadeSettled(w, c) ==
  LET a == w.calls[c].a
      w1 == IF w.calls[c].op = "calibrate" /\ w.calls[c].res = "resolved"
              THEN [w EXCEPT !.cal = setCalibration(@, getCalibrationKey(w.ad[a]),
                                [timestamp |-> w.ad[a].calibrationTimestamp,
                                 expiresAt |-> w.ad[a].calibrationExpiresAt])]
              ELSE w
  IN [w1 EXCEPT !.calls[c].pc = "settle05"]

\* ------------------------------------------------------------- microtasks
\* the 'error' handler attached by startSessionAndCalibrate, lines 296-301:
\* the spawn of process p failed
onError(w, p) ==
  Reject(cleanup([w EXCEPT !.proc[p] = [Exited(@) EXCEPT !.calTimer = FALSE]],
                 w.proc[p].owner),
         w.proc[p].calCall, "spawn error")

runMicrotask(w, m, t, ok) ==
  LET c == m.c IN
  IF m.k = "spawned"
    THEN IF ok THEN w ELSE onError(w, c)
  ELSE IF m.k = "stopped" /\ c < 0
    THEN disconnected(w, -c)
  ELSE IF m.k = "stopped"
    THEN IF w.calls[c].op = "calibrate"
           THEN spawnSession(w, c)
           ELSE [w EXCEPT !.calls[c].res = "resolved", !.calls[c].pc = "done"]
  ELSE IF w.calls[c].via = "facade"
    THEN facadeSettled(adapterSettled(w, c, t), c)
    ELSE [w EXCEPT !.calls[c].pc = "done"]

RunMicrotask ==
  /\ mq # <<>>
  /\ \E ok \in BOOLEAN :
       Commit(runMicrotask([W EXCEPT !.mq = Tail(@)], Head(mq), now, ok))
  /\ UNCHANGED <<now, made, usbLog>>


\* ------------------------------------------------------------- API calls
\* A call takes the first free record.
NextCall(c) ==
  /\ made < MaxCalls
  /\ calls[c].op = "none" /\ \A d \in Calls : d < c => calls[d].op # "none"

\* The caller has its answer: the call's record is dropped, and with it the
\* settled promise that the closure of a process may still hold.
Forget(c) ==
  /\ mq = <<>> /\ Returned(c)
  /\ calls' = [calls EXCEPT ![c] = InitCall]
  /\ proc' = [p \in Procs |-> IF proc[p].calCall = c
                                THEN [proc[p] EXCEPT !.calCall = 0] ELSE proc[p]]
  /\ hwEvents' = <<>>
  /\ UNCHANGED <<spotread, stops, mq, adapters, detector, calibrations, config, parser, mgr, now,
                 made, usbLog>>

\* every calibrate call that may still spawn needs a process of its own among
\* the first n
CanSpawn(n) ==
  Cardinality({p \in 1..n : proc[p].st = "none"})
    > Cardinality({c \in Calls : calls[c].op = "calibrate"
                                   /\ calls[c].pc \in {"settle3", "awaitStop"}})

\* the commands a process has not read yet, and the stopSession() invocations
\* still waiting, are kept within the bounds
CanWrite(a) ==
  spotread[a].expectProcess # 0 => Len(proc[spotread[a].expectProcess].stdin) < MaxStdin
CanStop(a) == CanWrite(a) /\ Len(stops) < MaxStops

NewCall(op, a, via) ==
  [InitCall EXCEPT !.op = op, !.a = a, !.via = via, !.pc = "called"]

\* a client of the wrapper itself: spotread.calibrate(), line 495
DirectCalibrate(c, a, n) ==
  /\ Idle /\ Quiet /\ NextCall(c) /\ CanSpawn(n) /\ CanStop(a) /\ adapters[a].st = "made"
  /\ Commit(startSessionAndCalibrate(
       [W EXCEPT !.calls[c] = [NewCall("calibrate", a, "direct") EXCEPT !.res = "pending"]], c))
  /\ made' = made + 1 /\ UNCHANGED <<now, usbLog>>

\* spotread.measure(), line 400
DirectMeasure(c, a) ==
  /\ Idle /\ Quiet /\ NextCall(c) /\ CanWrite(a) /\ adapters[a].st = "made"
  /\ Commit(measure(
       [W EXCEPT !.calls[c] = [NewCall("measure", a, "direct") EXCEPT !.res = "pending"]], c))
  /\ made' = made + 1 /\ UNCHANGED <<now, usbLog>>

\* spotread.stopSession(), line 503
DirectStop(c, a) ==
  /\ Idle /\ Quiet /\ NextCall(c) /\ CanStop(a) /\ adapters[a].st = "made"
  /\ Commit(stopSession(
       [W EXCEPT !.calls[c] = [NewCall("stop", a, "direct") EXCEPT !.res = "pending",
                                                                  !.pc = "awaitStop"]],
       a, c))
  /\ made' = made + 1 /\ UNCHANGED <<now, usbLog>>

\* getActiveDevice(), part_007 lines 237-241: the adapter registered under the
\* active device id; 0 stands for null
getActiveDevice ==
  IF \E i \in DOMAIN mgr.devices : mgr.devices[i].id = mgr.activeDeviceId
    THEN mgr.devices[CHOOSE i \in DOMAIN mgr.devices :
                       mgr.devices[i].id = mgr.activeDeviceId].a
    ELSE 0

\* getActiveDevice().calibrate(), part_007 lines 257-264: pause, then wait 3 s
FacadeCalibrate(c, a) ==
  /\ Idle /\ Quiet /\ NextCall(c) /\ CanSpawn(MaxProcs)
  /\ a = getActiveDevice
  /\ calls' = [calls EXCEPT ![c] = [NewCall("calibrate", a, "facade") EXCEPT
                                      !.pc = "settle3", !.paused = TRUE]]
  /\ detector' = pause(detector)
  /\ hwEvents' = <<>>
  /\ UNCHANGED <<spotread, proc, stops, mq, adapters, calibrations, config, parser, mgr, now, usbLog>>
  /\ made' = made + 1

\* the measure facade without the ledger check (lines 283-287 dropped)
FacadeMeasureNoLedgerCheck(c, a) ==
  /\ Idle /\ Quiet /\ NextCall(c)
  /\ a = getActiveDevice
  /\ calls' = [calls EXCEPT ![c] = [NewCall("measure", a, "facade") EXCEPT
                                      !.pc = "settle3", !.paused = TRUE]]
  /\ detector' = pause(detector)
  /\ hwEvents' = <<>>
  /\ UNCHANGED <<spotread, proc, stops, mq, adapters, calibrations, config, parser, mgr, now, usbLog>>
  /\ made' = made + 1

\* getActiveDevice().measure(), part_007 lines 281-295: the ledger is read
\* first; pause and the 3 s wait follow only if the device is calibrated
FacadeMeasure(c, a) ==
  /\ Idle /\ Quiet /\ NextCall(c)
  /\ a = getActiveDevice
  /\ IF getCalibrationStatus(calibrations, getCalibrationKey(adapters[a]), now).calibrated
       THEN /\ calls' = [calls EXCEPT ![c] = [NewCall("measure", a, "facade") EXCEPT
                                                !.pc = "settle3", !.paused = TRUE]]
            /\ detector' = pause(detector)
       ELSE /\ calls' = [calls EXCEPT ![c] = [NewCall("measure", a, "facade") EXCEPT
                                                !.pc = "done", !.out = "rejected",
                                                !.err = "DEVICE_NOT_CALIBRATED"]]
            /\ UNCHANGED detector
  /\ hwEvents' = <<>>
  /\ UNCHANGED <<spotread, proc, stops, mq, adapters, calibrations, config, parser, mgr, now, usbLog>>
  /\ made' = made + 1

\* the 3 s delay is over: the adapter's operation is called (lines 267, 298)
FacadeSettle3(c) ==
  /\ Idle /\ Quiet /\ calls[c].via = "facade" /\ calls[c].pc = "settle3"
  /\ LET w == [W EXCEPT !.calls[c].res = "pending", !.calls[c].pc = "awaitOp"]
     IN Commit(IF calls[c].op = "calibrate" THEN adapterCalibrate(w, c)
                                            ELSE adapterMeasure(w, c))
  /\ UNCHANGED <<now, made, usbLog>>

\* the 500 ms delay of the finally block is over: resume (lines 277-278, 311-312)
FacadeSettle05(c) ==
  /\ Idle /\ Quiet /\ calls[c].via = "facade" /\ calls[c].pc = "settle05"
  /\ calls' = [calls EXCEPT ![c].pc = "done", ![c].out = calls[c].res,
                            ![c].resumed = TRUE]
  /\ detector' = resume(detector)
  /\ hwEvents' = <<>>
  /\ UNCHANGED <<spotread, proc, stops, mq, adapters, calibrations, config, parser, mgr, now, made,
                 usbLog>>



\* ------------------------------------------------------------- USB devices
VID_XRITE == 2417
PID_I1PRO == 8192
PID_I1PRO2 == 8193
PID_I1PRO3 == 8199
DebounceWindow == 3
CleanupDelay == 5

\* the devices the operating system reports: the three supported instruments
\* and a device of another vendor
\* one instrument seen at two addresses: a re-enumeration of the same unit
MovedDevices ==
  {[vendorId |-> VID_XRITE, productId |-> PID_I1PRO2, deviceAddress |-> 1],
   [vendorId |-> VID_XRITE, productId |-> PID_I1PRO2, deviceAddress |-> 2]}

UsbDevices ==
  {[vendorId |-> VID_XRITE, productId |-> PID_I1PRO, deviceAddress |-> 1],
   [vendorId |-> VID_XRITE, productId |-> PID_I1PRO2, deviceAddress |-> 1],
   [vendorId |-> VID_XRITE, productId |-> PID_I1PRO3, deviceAddress |-> 2],
   [vendorId |-> 1133, productId |-> PID_I1PRO2, deviceAddress |-> 2]}

\* DeviceDetector.isSupportedDevice, lines 206-220
isSupportedDevice(vendorId, productId) ==
  vendorId = VID_XRITE /\ productId \in {PID_I1PRO, PID_I1PRO2, PID_I1PRO3}

\* Template strings are sequences of parts, so that a key built from numbers and
\* an id built from names can be compared as the strings are.
Str(x) == [s |-> x, n |-> 0]
Num(x) == [s |-> "", n |-> x]

\* `${vendorId}_${productId}_${deviceAddress}`, part_007 lines 68 and 174
deviceKey(u) == <<Num(u.vendorId), Num(u.productId), Num(u.deviceAddress)>>

\* `${deviceInfo.make}_${deviceInfo.model}_${usbDevice.deviceAddress}`, line 122
deviceId(model, address) == <<Str("X-Rite"), Str(model), Num(address)>>

Keys == {deviceKey(u) : u \in UsbDevices \cup MovedDevices}

\* identifyDevice with the models of 0x2000 and 0x2001 exchanged
identifyDeviceSwapped(u) ==
  IF u.vendorId = VID_XRITE /\ u.productId = PID_I1PRO
    THEN [ok |-> TRUE, model |-> "i1Pro2"]
  ELSE IF u.vendorId = VID_XRITE /\ u.productId = PID_I1PRO2
    THEN [ok |-> TRUE, model |-> "i1Pro"]
  ELSE IF u.vendorId = VID_XRITE /\ u.productId = PID_I1PRO3
    THEN [ok |-> TRUE, model |-> "i1Pro3"]
  ELSE [ok |-> FALSE, model |-> ""]

\* DeviceManager.identifyDevice, part_007 lines 199-235
identifyDevice(u) ==
  IF u.vendorId = VID_XRITE /\ u.productId = PID_I1PRO
    THEN [ok |-> TRUE, model |-> "i1Pro"]
  ELSE IF u.vendorId = VID_XRITE /\ u.productId = PID_I1PRO2
    THEN [ok |-> TRUE, model |-> "i1Pro2"]
  ELSE IF u.vendorId = VID_XRITE /\ u.productId = PID_I1PRO3
    THEN [ok |-> TRUE, model |-> "i1Pro3"]
  ELSE [ok |-> FALSE, model |-> ""]

\* ------------------------------------------------------------- DeviceManager
\* the adapter object the next `new I1ProAdapter` creates
FreeAdapter(ad) ==
  CHOOSE a \in Adapters : ad[a].st = "none" /\ \A b \in Adapters : b < a => ad[b].st # "none"

\* Map.set: an existing key keeps its place
MapSet(devs, id, a) ==
  IF \E i \in DOMAIN devs : devs[i].id = id
    THEN [i \in DOMAIN devs |-> IF devs[i].id = id THEN [id |-> id, a |-> a] ELSE devs[i]]
    ELSE Append(devs, [id |-> id, a |-> a])

\* the debounce test of handleDeviceAttached, lines 70-72, at time t
RecentlyDetached(m, key, t) ==
  \E r \in m.recentlyDetached : r.key = key /\ t - r.t < DebounceWindow

\* handleDeviceAttached returns before it constructs an adapter (lines 70-87)
Skips(m, key, t) ==
  \/ RecentlyDetached(m, key, t)
  \/ key \in m.pendingConnections
  \/ \E i \in DOMAIN m.devices : m.devices[i].id = key

\* handleDeviceAttached without the debounce test (lines 70-76 dropped)
handleDeviceAttachedNoDebounce(w, u, t) ==
  LET key == deviceKey(u)
      info == identifyDevice(u)
  IN IF \/ key \in w.mgr.pendingConnections
        \/ \E i \in DOMAIN w.mgr.devices : w.mgr.devices[i].id = key
       THEN w
     ELSE IF ~info.ok THEN w
     ELSE LET a == FreeAdapter(w.ad) IN
          [w EXCEPT !.mgr.pendingConnections = @ \cup {key},
                    !.ad[a] = [InitAdapter EXCEPT !.st = "made", !.model = info.model,
                                                  !.usbAddress = u.deviceAddress],
                    !.mgr.connecting = @ \cup {[u |-> u, a |-> a]}]

\* handleDeviceAttached, part_007 lines 66-118, up to the await of connect()
handleDeviceAttached(w, u, t) ==
  LET key == deviceKey(u)
      info == identifyDevice(u)
  IN IF RecentlyDetached(w.mgr, key, t)
       THEN [w EXCEPT !.mgr.recentlyDetached = {r \in @ : r.key # key}]
     ELSE IF Skips(w.mgr, key, t) THEN w
     ELSE IF ~info.ok THEN w   \* the key is reserved and released at once
     ELSE LET a == FreeAdapter(w.ad) IN
          [w EXCEPT !.mgr.pendingConnections = @ \cup {key},
                    !.ad[a] = [InitAdapter EXCEPT !.st = "made", !.model = info.model,
                                                  !.usbAddress = u.deviceAddress],
                    !.mgr.connecting = @ \cup {[u |-> u, a |-> a]}]

\* the rest of handleDeviceAttached without the catch block (lines 165-170
\* dropped): a rejected connect() leaves the key reserved
connectSettledNoCatch(w, h, ok, t) ==
  LET key == deviceKey(h.u)
      id == deviceId(w.ad[h.a].model, h.u.deviceAddress)
      status == getCalibrationStatus(w.cal, getCalibrationKey(w.ad[h.a]), t)
      w1 == [w EXCEPT !.mgr.connecting = @ \ {h}]
  IN IF ~ok THEN w1
     ELSE LET w2 == [w1 EXCEPT !.ad[h.a].connected = TRUE,
                               !.mgr.pendingConnections = @ \ {key},
                               !.mgr.devices = MapSet(@, id, h.a),
                               !.mgr.activeDeviceId = IF @ = <<>> THEN id ELSE @]
          IN IF status.calibrated /\ ~status.expired
               THEN [w2 EXCEPT !.ad[h.a].calibrationTimestamp = status.timestamp,
                               !.ad[h.a].calibrationExpiresAt = status.expiresAt]
               ELSE w2

\* the rest of handleDeviceAttached with the test of line 139 dropped: the
\* device that connected is made the active one
connectSettledTakesOver(w, h, ok, t) ==
  LET key == deviceKey(h.u)
      id == deviceId(w.ad[h.a].model, h.u.deviceAddress)
      status == getCalibrationStatus(w.cal, getCalibrationKey(w.ad[h.a]), t)
      w1 == [w EXCEPT !.mgr.connecting = @ \ {h},
                      !.mgr.pendingConnections = @ \ {key}]
  IN IF ~ok THEN w1
     ELSE LET w2 == [w1 EXCEPT !.ad[h.a].connected = TRUE,
                               !.mgr.devices = MapSet(@, id, h.a),
                               !.mgr.activeDeviceId = id]
          IN IF status.calibrated /\ ~status.expired
               THEN [w2 EXCEPT !.ad[h.a].calibrationTimestamp = status.timestamp,
                               !.ad[h.a].calibrationExpiresAt = status.expiresAt]
               ELSE w2

\* the rest of handleDeviceAttached once connect() has settled: lines 119-171
connectSettled(w, h, ok, t) ==
  LET key == deviceKey(h.u)
      id == deviceId(w.ad[h.a].model, h.u.deviceAddress)
      status == getCalibrationStatus(w.cal, getCalibrationKey(w.ad[h.a]), t)
      w1 == [w EXCEPT !.mgr.connecting = @ \ {h},
                      !.mgr.pendingConnections = @ \ {key}]
  IN IF ~ok THEN w1
     ELSE LET w2 == [w1 EXCEPT !.ad[h.a].connected = TRUE,
                               !.mgr.devices = MapSet(@, id, h.a),
                               !.mgr.activeDeviceId = IF @ = <<>> THEN id ELSE @]
          IN IF status.calibrated /\ ~status.expired
               THEN [w2 EXCEPT !.ad[h.a].calibrationTimestamp = status.timestamp,
                               !.ad[h.a].calibrationExpiresAt = status.expiresAt]
               ELSE w2

\* handleDeviceDetached, part_007 lines 173-197
handleDeviceDetached(w, u, t) ==
  LET key == deviceKey(u)
      w1 == [w EXCEPT !.mgr.recentlyDetached =
                         {r \in @ : r.key # key} \cup {[key |-> key, t |-> t]},
                      !.mgr.timers = @ \cup {[key |-> key, due |-> t + CleanupDelay]}]
      hits == {i \in DOMAIN w.mgr.devices :
                 w.ad[w.mgr.devices[i].a].usbAddress = u.deviceAddress}
  IN IF hits = {} THEN w1
     ELSE LET i == CHOOSE j \in hits : \A k \in hits : j <= k
              d == w.mgr.devices[i]
              Kept(e) == e.id # d.id
          IN [disconnect(w1, d.a) EXCEPT
                !.mgr.devices = SelectSeq(@, Kept),
                !.mgr.activeDeviceId = IF @ = d.id THEN <<>> ELSE @]

\* the 5 s timer of handleDeviceDetached, line 180
cleanupTimer(w, tm) ==
  [w EXCEPT !.mgr.recentlyDetached = {r \in @ : r.key # tm.key},
            !.mgr.timers = @ \ {tm}]

\* ------------------------------------------------------------- the event log
InitLog ==
  [n |-> 0, hist |-> [k \in Keys |-> <<>>], regs |-> [k \in Keys |-> 0],
   fails |-> [k \in Keys |-> 0]]

\* the manager's handler runs for an attach event at time t
onAttached(w, u, t) ==
  [handleDeviceAttached(w, u, t) EXCEPT
     !.log.hist[deviceKey(u)] =
        Append(@, [ev |-> "attach", t |-> t,
                   dropped |-> Skips(w.mgr, deviceKey(u), t) \/ ~identifyDevice(u).ok])]

onDetached(w, u, t) ==
  [handleDeviceDetached(w, u, t) EXCEPT
     !.log.hist[deviceKey(u)] = Append(@, [ev |-> "detach", t |-> t, dropped |-> FALSE])]

\* DeviceDetector._handleAttach, lines 29-46, run once per subscription
RECURSIVE handleAttach(_, _, _, _)
handleAttach(w, u, t, n) ==
  IF n = 0 \/ ~isSupportedDevice(u.vendorId, u.productId) THEN w
  ELSE handleAttach(onAttached(w, u, t), u, t, n - 1)

\* DeviceDetector._handleDetach, lines 48-62, run once per subscription
RECURSIVE handleDetach(_, _, _, _)
handleDetach(w, u, t, n) ==
  IF n = 0 THEN w ELSE handleDetach(onDetached(w, u, t), u, t, n - 1)

\* DeviceDetector.stop, lines 152-165
stop(d) ==
  IF ~d.monitoring THEN d
  ELSE [d EXCEPT !.listeners = IF @ > 0 THEN @ - 1 ELSE 0, !.monitoring = FALSE]

\* DeviceManager.stopDetection, part_007 lines 43-52, with no session open on
\* any adapter: every disconnect() completes without suspending
stopDetection(w) ==
  LET RECURSIVE all(_, _)
      all(v, i) == IF i > Len(w.mgr.devices) THEN v
                   ELSE all(disconnected(v, w.mgr.devices[i].a), i + 1)
  IN [all([w EXCEPT !.det = stop(@)], 1) EXCEPT !.mgr.devices = <<>>]

\* DeviceDetector.start, lines 130-150
start(d) ==
  IF d.monitoring THEN d
  ELSE [d EXCEPT !.listeners = @ + 1, !.monitoring = TRUE, !.scanning = TRUE]

\* ------------------------------------------------------------- hotplug events
MaxEvents == 3
MaxTime == 6

\* an adapter object is left for the handler to construct
CanAttach == \E a \in Adapters : adapters[a].st = "none"

\* DeviceManager.startDetection, part_007 lines 21-41
StartDetection ==
  /\ Idle /\ ~detector.monitoring
  /\ detector' = [start(detector) EXCEPT !.handlers = @ + 1]
  /\ hwEvents' = <<>>
  /\ UNCHANGED <<spotread, proc, stops, calls, mq, adapters, calibrations, config, parser, mgr,
                 now, made, usbLog>>

\* the callback of the exec in detectDevicesWithSpotread, lines 81-124: the
\* driver lists no device, or one instrument
ScanDone(found) ==
  /\ Idle /\ detector.scanning
  /\ found \subseteq {u \in UsbDevices : u.productId = PID_I1PRO2
                                          /\ isSupportedDevice(u.vendorId, u.productId)}
  /\ Cardinality(found) <= 1
  /\ CanAttach
  /\ LET w0 == [W EXCEPT !.det.scanning = FALSE]
         w == IF found = {} THEN w0
              ELSE handleAttach(w0, CHOOSE u \in found : TRUE, now, detector.handlers)
     IN Commit(w) /\ usbLog' = w.log
  /\ UNCHANGED <<now, made>>

\* the operating system reports an attached device
UsbAttach(u) ==
  /\ Idle /\ detector.listeners > 0 /\ usbLog.n < MaxEvents /\ CanAttach
  /\ LET w == handleAttach(W, u, now, detector.listeners * detector.handlers)
     IN Commit(w) /\ usbLog' = [w.log EXCEPT !.n = @ + 1]
  /\ UNCHANGED <<now, made>>

\* the operating system reports a detached device
UsbDetach(u) ==
  /\ Idle /\ detector.listeners > 0 /\ usbLog.n < MaxEvents
  /\ LET w == handleDetach(W, u, now, detector.listeners * detector.handlers)
     IN Commit(w) /\ usbLog' = [w.log EXCEPT !.n = @ + 1]
  /\ UNCHANGED <<now, made>>

\* adapter.connect() settles: testConnection found the driver, or did not
ConnectSettled(h, ok) ==
  /\ Idle /\ h \in mgr.connecting
  /\ LET w == connectSettled(W, h, ok, now)
         key == deviceKey(h.u)
     IN /\ Commit(w)
        /\ usbLog' = IF ok THEN [usbLog EXCEPT !.regs[key] = @ + 1]
                           ELSE [usbLog EXCEPT !.fails[key] = @ + 1]
  /\ UNCHANGED <<now, made>>

CleanupTimer(tm) ==
  /\ Idle /\ tm \in mgr.timers /\ now >= tm.due
  /\ Commit(cleanupTimer(W, tm))
  /\ UNCHANGED <<now, made, usbLog>>

\* a second passes while a timer is armed (no one reads the clock otherwise);
\* a timer that is due fires first
Tick ==
  /\ Idle /\ now < MaxTime
  /\ mgr.timers # {}
  /\ \A tm \in mgr.timers : tm.due > now
  /\ now' = now + 1
  /\ hwEvents' = <<>>
  /\ UNCHANGED <<spotread, proc, stops, calls, mq, adapters, detector, calibrations, config, parser,
                 mgr, made, usbLog>>

\* The calibration window passes while the bridge is idle: every timer of the
\* program is at most 60 s, so none is armed by then.
Expire ==
  /\ Idle /\ Quiet /\ now < ExpiryWindow
  /\ calibrations # <<>>
  /\ \A c \in Calls : calls[c].op = "none"
  /\ \A p \in Procs : ~proc[p].calTimer
  /\ \A i \in DOMAIN stops : ~stops[i].timer
  /\ mgr.timers = {}
  /\ now' = now + ExpiryWindow + 1
  /\ hwEvents' = <<>>
  /\ UNCHANGED <<spotread, proc, stops, calls, mq, adapters, detector, calibrations, config, parser,
                 mgr, made, usbLog>>

\* ------------------------------------------------------------- specifications
\* the script from its start to the ready prompt, its stdin, and its exit
ScriptSession(maxSerials) ==
  \E p \in Procs :
    \/ \E serials \in 0..maxSerials : ScriptPrompt(p, serials)
    \/ ScriptCalComplete(p)
    \/ ScriptCalFailed(p)
    \/ ScriptExpectTimeout(p)
    \/ ScriptReady(p)
    \/ ScriptStdin(p)
    \/ ProcExit(p)

\* the expect_background patterns of the script: result spans
ScriptSpans(maxResults) ==
  \E p \in Procs :
    \/ ScriptResult(p, maxResults)
    \/ ScriptSpectrum(p)
    \/ ScriptReadyPrompt(p)

Subprocess(maxResults, maxSerials) ==
  \/ ScriptSession(maxSerials)
  \/ ScriptSpans(maxResults)

\* the events of a session that no measure() call is part of
SessionEvents ==
  \/ \E p \in Procs : \E n \in 1..MaxPipe : OnStdoutData(p, n)
  \/ \E p \in Procs : OnClose(p)
  \/ \E p \in Procs : CalibrationTimeout(p)
  \/ \E i \in DOMAIN stops : StopTimeout(i)
  \/ \E c \in Calls : Forget(c)
  \/ RunMicrotask

\* the timers of a pending measure() call
MeasureEvents ==
  \/ \E c \in Calls : MeasureTimeout(c)
  \/ \E c \in Calls : CheckForResult(c)

NodeEvents ==
  \/ SessionEvents
  \/ MeasureEvents

\* The wrapper of one adapter, driven through its own API.
SessionInit ==
  /\ spotread = [a \in Adapters |-> InitSpotread]
  /\ proc = [p \in Procs |-> InitProc]
  /\ stops = <<>>
  /\ calls = [c \in Calls |-> InitCall]
  /\ mq = <<>>
  /\ hwEvents = <<>>
  /\ adapters = [a \in Adapters |->
                   IF a = 1 THEN [InitAdapter EXCEPT !.st = "made", !.model = "i1Pro2",
                                                     !.usbAddress = 1]
                            ELSE InitAdapter]
  /\ detector = InitDetector
  /\ calibrations = <<>>
  /\ mgr = InitMgr
  /\ now = 0
  /\ made = 0
  /\ config = [expiryHours |-> DefaultExpiryHours]
  /\ parser = NotParsed(<<>>)
  /\ usbLog = InitLog

SessionNext ==
  \/ Subprocess(MaxResults, 0)
  \/ NodeEvents
  \/ \E c \in Calls : DirectCalibrate(c, 1, MaxProcs)
  \/ \E c \in Calls : DirectMeasure(c, 1)
  \/ \E c \in Calls : DirectStop(c, 1)

SessionSpec == SessionInit /\ [][SessionNext]_vars

\* The wrapper of one adapter restarted by its clients: calibrate() and
\* stopSession() calls that overlap, with a process for each of them.
RestartNext ==
  \/ ScriptSession(0)
  \/ SessionEvents
  \/ \E c \in Calls : DirectCalibrate(c, 1, MaxRestartProcs)
  \/ \E c \in Calls : DirectStop(c, 1)

RestartSpec == SessionInit /\ [][RestartNext]_vars

\* One connected, active device behind the facade of getActiveDevice(), the
\* hotplug monitor started.
InitWith(cfg) ==
  /\ spotread = [a \in Adapters |-> InitSpotread]
  /\ proc = [p \in Procs |-> InitProc]
  /\ stops = <<>>
  /\ calls = [c \in Calls |-> InitCall]
  /\ mq = <<>>
  /\ hwEvents = <<>>
  /\ adapters = [a \in Adapters |->
                   IF a = 1 THEN [InitAdapter EXCEPT !.st = "made", !.model = "i1Pro2",
                                                     !.usbAddress = 1,
                                                     !.connected = TRUE]
                            ELSE InitAdapter]
  /\ detector = [InitDetector EXCEPT !.monitoring = TRUE, !.listeners = 1, !.handlers = 1]
  /\ calibrations = <<>>
  /\ mgr = [InitMgr EXCEPT !.devices = <<[id |-> deviceId("i1Pro2", 1), a |-> 1]>>,
                           !.activeDeviceId = deviceId("i1Pro2", 1)]
  /\ now = 0
  /\ made = 0
  /\ config = cfg
  /\ parser = NotParsed(<<>>)
  /\ usbLog = InitLog

Init == InitWith([expiryHours |-> DefaultExpiryHours])

Next ==
  \/ Subprocess(MaxFacadeResults, 0)
  \/ NodeEvents
  \/ \E c \in Calls : \E a \in Adapters : FacadeCalibrate(c, a)
  \/ \E c \in Calls : \E a \in Adapters : FacadeMeasure(c, a)
  \/ \E c \in Calls : FacadeSettle3(c)
  \/ \E c \in Calls : FacadeSettle05(c)
  \/ Expire

Spec == Init /\ [][Next]_vars

\* The device lifecycle manager and the hotplug monitor, no session running.
HotplugInit ==
  /\ spotread = [a \in Adapters |-> InitSpotread]
  /\ proc = [p \in Procs |-> InitProc]
  /\ stops = <<>>
  /\ calls = [c \in Calls |-> InitCall]
  /\ mq = <<>>
  /\ hwEvents = <<>>
  /\ adapters = [a \in Adapters |-> InitAdapter]
  /\ detector = InitDetector
  /\ calibrations = <<>>
  /\ mgr = InitMgr
  /\ now = 0
  /\ made = 0
  /\ config = [expiryHours |-> DefaultExpiryHours]
  /\ parser = NotParsed(<<>>)
  /\ usbLog = InitLog

HotplugNext ==
  \/ StartDetection
  \/ \E found \in SUBSET UsbDevices : ScanDone(found)
  \/ \E u \in UsbDevices : UsbAttach(u)
  \/ \E u \in UsbDevices : UsbDetach(u)
  \/ \E h \in mgr.connecting : \E ok \in BOOLEAN : ConnectSettled(h, ok)
  \/ \E tm \in mgr.timers : CleanupTimer(tm)
  \/ Tick

HotplugSpec == HotplugInit /\ [][HotplugNext]_vars

\* One connected, active device behind the facade, calibrated through it while
\* the instrument is unplugged and plugged in again; the driver may report
\* its serial number.
DeviceNext ==
  \/ ScriptSession(MaxSerials)
  \/ SessionEvents
  \/ \E c \in Calls : \E a \in Adapters :
       made < MaxDeviceCalls /\ FacadeCalibrate(c, a)
  \/ \E c \in Calls : FacadeSettle3(c)
  \/ \E c \in Calls : FacadeSettle05(c)
  \/ \E u \in MovedDevices : usbLog.n < MaxDeviceEvents /\ UsbAttach(u)
  \/ \E u \in MovedDevices : usbLog.n < MaxDeviceEvents /\ UsbDetach(u)
  \/ \E h \in mgr.connecting : \E ok \in BOOLEAN : ConnectSettled(h, ok)
  \/ \E tm \in mgr.timers : CleanupTimer(tm)
  \/ Tick

DeviceSpec == Init /\ [][DeviceNext]_vars

\* The connected device is unplugged while calibrate() calls made through the
\* facade are under way.
DetachNext ==
  \/ ScriptSession(0)
  \/ SessionEvents
  \/ \E c \in Calls : \E a \in Adapters : made < MaxDetachCalls /\ FacadeCalibrate(c, a)
  \/ \E c \in Calls : FacadeSettle3(c)
  \/ \E c \in Calls : FacadeSettle05(c)
  \/ \E u \in MovedDevices : usbLog.n < MaxDeviceEvents /\ UsbDetach(u)

DetachSpec == Init /\ [][DetachNext]_vars


\* One connected, active device calibrated through the facade, unplugged and
\* plugged in again, and measured through the facade of the adapter that is
\* active by then; the subprocess is followed up to the trigger it is sent.
ReattachNext ==
  \/ ScriptSession(0)
  \/ SessionEvents
  \/ \E c \in Calls : \E a \in Adapters :
       made < MaxDeviceCalls /\ FacadeCalibrate(c, a)
  \/ \E c \in Calls : \E a \in Adapters :
       made < MaxReattachCalls /\ FacadeMeasure(c, a)
  \/ \E c \in Calls : FacadeSettle3(c)
  \/ \E c \in Calls : FacadeSettle05(c)
  \/ \E u \in MovedDevices : usbLog.n < MaxDeviceEvents /\ UsbAttach(u)
  \/ \E u \in MovedDevices : usbLog.n < MaxDeviceEvents /\ UsbDetach(u)
  \/ \E h \in mgr.connecting : \E ok \in BOOLEAN : ConnectSettled(h, ok)
  \/ \E tm \in mgr.timers : CleanupTimer(tm)
  \/ Tick

ReattachSpec == Init /\ [][ReattachNext]_vars


\* The same device calibrated through the facade, whatever window the Config
\* store holds.
LedgerInit == \E h \in ExpiryHoursChoices : InitWith([expiryHours |-> h])

LedgerSpec == LedgerInit /\ [][DeviceNext]_vars


\* The wrapper driven directly while the driver prints result spans that hold
\* no data the parser can read.
ParseNext ==
  \/ ScriptSession(0)
  \/ \E p \in Procs : ScriptUnreadable(p, MaxResults)
  \/ NodeEvents
  \/ \E c \in Calls : DirectCalibrate(c, 1, MaxProcs)
  \/ \E c \in Calls : DirectMeasure(c, 1)

ParseSpec == SessionInit /\ [][ParseNext]_vars


\* A curve (wavelength -> value) written in one of the layouts the parser
\* reads, in ascending order of wavelength; <<>> when the layout cannot carry
\* the curve (a declared range needs evenly spaced wavelengths, a bare list
\* starts at 380 nm and steps by 10 nm).
Render(layout, curve) ==
  LET n == Cardinality(DOMAIN curve)
      ws == CHOOSE s \in [1..n -> DOMAIN curve] : \A i, j \in 1..n : i < j => s[i] < s[j]
      vals == [i \in 1..n |-> curve[ws[i]]]
      step == IF n > 1 THEN (ws[n] - ws[1]) \div (n - 1) ELSE 10
      Even(from, by) == \A i \in 1..n : ws[i] = from + (i - 1) * by
      Each(k) == [i \in 1..n |-> [k |-> k, a |-> ws[i], b |-> 0, n |-> 0, vals |-> <<vals[i]>>]]
  IN CASE layout = "token" -> Each("tok")
       [] layout = "colon" -> Each("colon")
       [] layout = "columns" -> Each("cols")
       [] layout = "range" ->
            IF Even(ws[1], step)
              THEN <<[k |-> "header", a |-> ws[1], b |-> ws[n], n |-> n, vals |-> <<>>],
                     [k |-> "values", a |-> 0, b |-> 0, n |-> 0, vals |-> vals]>>
              ELSE <<>>
       [] layout = "list" ->
            IF Even(380, 10)
              THEN <<[k |-> "block", a |-> 0, b |-> 0, n |-> 0, vals |-> vals]>>
              ELSE <<>>
       [] OTHER -> <<>>

\* The result spans handed to the parser: the result line (XYZ and Lab, each
\* possibly missing), a curve in one layout, and possibly a second curve in
\* another layout after it.
Spans ==
  LET Wavelengths == {380, 390, 740}
      Magnitudes == {1, 2}
      Values == [neg : {FALSE}, mag : Magnitudes] \cup {[neg |-> TRUE, mag |-> 1]}
      Curves == UNION {[ws -> Values] : ws \in SUBSET Wavelengths \ {{}}}
      Second == {(380 :> [neg |-> FALSE, mag |-> 2]),
                 (380 :> [neg |-> FALSE, mag |-> 2]) @@ (390 :> [neg |-> FALSE, mag |-> 1])}
      Layouts == {"token", "colon", "columns", "range", "list"}
      Bodies(cs) == {Render(l, c) : l \in Layouts, c \in cs} \ {<<>>}
      Triple(k, t) == IF t = <<>> THEN <<>>
                      ELSE <<[k |-> k, a |-> 0, b |-> 0, n |-> 0, vals |-> t]>>
      Labs == {<<>>, <<[neg |-> FALSE, mag |-> 50], [neg |-> TRUE, mag |-> 1], [neg |-> FALSE, mag |-> 3]>>}
      XYZs == {<<>>, <<[neg |-> FALSE, mag |-> 20], [neg |-> FALSE, mag |-> 21], [neg |-> FALSE, mag |-> 17]>>}
  IN {Triple("xyz", xyz) \o Triple("lab", lab) \o first \o second :
        xyz \in XYZs, lab \in Labs, first \in Bodies(Curves), second \in Bodies(Second) \cup {<<>>}}

\* parseConsoleOutput applied to synthetic result spans.
ParserNext ==
  \/ /\ parser = NotParsed(<<>>)
     /\ \E text \in Spans : parser' = NotParsed(text)
     /\ UNCHANGED <<spotread, proc, stops, calls, mq, hwEvents, adapters, detector,
                    calibrations, mgr, config, now, made, usbLog>>
  \/ /\ parser.consoleOutput # <<>> /\ ~parser.result.done
     /\ parser' = [parser EXCEPT !.result = parseConsoleText(parser.consoleOutput)]
     /\ UNCHANGED <<spotread, proc, stops, calls, mq, hwEvents, adapters, detector,
                    calibrations, mgr, config, now, made, usbLog>>

ParserSpec == Init /\ [][ParserNext]_vars


\* The DeviceManager and its DeviceDetector with no session open: detection
\* is started and stopped, the monitor paused and resumed, and the active
\* device chosen, in any order, while the instrument at one address comes
\* and goes.
ManagerNext ==
  \/ detector.handlers < MaxListeners /\ ~detector.scanning /\ StartDetection
  \/ \E found \in SUBSET {u \in MovedDevices : u.deviceAddress = 1} : ScanDone(found)
  \/ \E u \in {v \in MovedDevices : v.deviceAddress = 1} : usbLog.n < MaxDeviceEvents /\ UsbAttach(u)
  \/ \E u \in {v \in MovedDevices : v.deviceAddress = 1} : usbLog.n < MaxDeviceEvents /\ UsbDetach(u)
  \/ \E h \in mgr.connecting : \E ok \in BOOLEAN : ConnectSettled(h, ok)
  \/ \E tm \in mgr.timers : CleanupTimer(tm)
  \/ Tick
  \* stopDetection()
  \/ /\ Idle
     /\ Commit(stopDetection(W))
     /\ UNCHANGED <<now, made, usbLog>>
  \* detector.pause()
  \/ /\ Idle
     /\ detector' = pause(detector)
     /\ hwEvents' = <<>>
     /\ UNCHANGED <<spotread, proc, stops, calls, mq, adapters, calibrations, config, parser,
                    mgr, now, made, usbLog>>
  \* detector.resume()
  \/ /\ Idle /\ detector.listeners < MaxListeners
     /\ detector' = resume(detector)
     /\ hwEvents' = <<>>
     /\ UNCHANGED <<spotread, proc, stops, calls, mq, adapters, calibrations, config, parser,
                    mgr, now, made, usbLog>>
  \* setActiveDevice(deviceId), part_007 lines 334-341
  \/ \E u \in {v \in MovedDevices : v.deviceAddress = 1} :
       LET id == deviceId(identifyDevice(u).model, u.deviceAddress) IN
       /\ Idle
       /\ mgr' = IF \E i \in DOMAIN mgr.devices : mgr.devices[i].id = id
                   THEN [mgr EXCEPT !.activeDeviceId = id] ELSE mgr
       /\ hwEvents' = <<>>
       /\ UNCHANGED <<spotread, proc, stops, calls, mq, adapters, detector, calibrations,
                      config, parser, now, made, usbLog>>

ManagerSpec == HotplugInit /\ [][ManagerNext]_vars


\* ------------------------------------------------------------- properties
\* the session of a wrapper is Closed: no handle, not calibrated, nothing pending
SessionClosed(s) ==
  /\ s.expectProcess = 0 /\ ~s.isCalibrated /\ ~s.measurementPending
  /\ s.pendingResolve = 0 /\ s.pendingReject = 0

\* a stopSession() of adapter a's current process has not completed
Stopping(a) ==
  \E i \in DOMAIN stops : stops[i].a = a /\ stops[i].proc = spotread[a].expectProcess

SessionReady(a) ==
  hasActiveSession(spotread[a]) /\ ~spotread[a].measurementPending /\ ~Stopping(a)

\* 'close' of process p is delivered in this step
CloseStep(p) == proc[p].st = "exited" /\ proc'[p].st = "closed"

\* call c is made in this step, as a measure() on the wrapper itself
MeasureCalled(c) ==
  calls[c].op = "none" /\ calls'[c].op = "measure" /\ calls'[c].via = "direct"

\* call c awaits a promise of measure() that nothing can settle any more: its
\* timer is gone and the wrapper holds neither its resolve nor its reject
Orphaned(c) ==
  /\ calls[c].res = "pending" /\ calls[c].pc = "awaitMeasure" /\ ~calls[c].mTimer
  /\ spotread[calls[c].a].pendingResolve # c
  /\ spotread[calls[c].a].pendingReject # c

\* call c has passed the adapter's checks and its finally block has not run
InFlight(c, a) ==
  /\ calls[c].via = "facade" /\ calls[c].a = a /\ calls[c].entered
  /\ calls[c].pc \in {"awaitOp", "awaitStop", "awaitCal", "awaitMeasure"}

\* C1: while a subprocess spawned by calibrate() is alive and has not reached
\* Ready, the hotplug monitor is paused and its USB listeners are unsubscribed.
C1_Original ==
  \A p \in Procs :
    (proc[p].st = "running" /\ proc[p].phase # "loop")
      => (detector.paused /\ detector.listeners = 0)

\* C2: a facade call that has paused the monitor and not yet resumed it can
\* still get there: the operation it awaits is never left with nothing that
\* could settle it.
C2_Original ==
  \A c \in Calls :
    (calls[c].via = "facade" /\ calls[c].paused /\ ~calls[c].resumed) => ~Orphaned(c)

\* C3: when 'close' of the session's subprocess is delivered while a measure()
\* call is pending, that call is rejected and the session is Closed.
C3_Original ==
  [][\A p \in Procs : \A c \in Calls :
       (/\ CloseStep(p)
        /\ spotread[proc[p].owner].expectProcess = p
        /\ spotread[proc[p].owner].pendingReject = c
        /\ calls[c].res = "pending")
         => (/\ calls'[c].res = "rejected"
             /\ SessionClosed(spotread'[proc[p].owner]))]_vars

\* C4: a calibrate() or measure() call on the wrapper that has not settled
\* still has its 60 s timer armed: once the timer has fired or has been
\* cancelled, the call is settled.
C4_Original ==
  \A c \in Calls :
    (calls[c].via = "direct" /\ calls[c].res = "pending")
      => /\ calls[c].pc = "awaitMeasure" => calls[c].mTimer
         /\ calls[c].pc = "awaitCal"
              => \E p \in Procs : proc[p].calCall = c /\ proc[p].calTimer

\* C5: on one adapter at most one operation is in flight and the busy flag is
\* set exactly then; a call that reaches the adapter while it is busy is
\* rejected with 'Device is busy' and changes neither the session, the
\* subprocess nor the adapter.
C5_BusyExclusion ==
  /\ [](\A a \in Adapters :
          /\ Cardinality({c \in Calls : InFlight(c, a)}) <= 1
          /\ adapters[a].busy <=> (\E c \in Calls : InFlight(c, a)))
  /\ [][\A c \in Calls :
          (/\ calls[c].pc = "settle3" /\ calls'[c].pc # "settle3"
           /\ adapters[calls[c].a].busy)
            => (/\ calls'[c].res = "rejected" /\ calls'[c].err = "Device is busy"
                /\ ~calls'[c].entered
                /\ spotread' = spotread /\ proc' = proc /\ stops' = stops
                /\ adapters' = adapters)]_vars

C5_Witness ==
  \E c, d \in Calls :
    /\ calls[c].err = "Device is busy" /\ calls[c].res = "rejected"
    /\ InFlight(d, calls[c].a) /\ calls[d].res = "pending"

C7_Original ==
  [][\A c \in Calls :
       (MeasureCalled(c) /\ ~SessionReady(calls'[c].a))
         => (/\ calls'[c].res = "rejected"
             /\ calls'[c].err \in {"No active calibrated session",
                                   "Measurement already in progress"}
             /\ spotread' = spotread /\ proc' = proc)]_vars

\* C8: of two consecutive completed result spans of a session, the first
\* completed while a measure() trigger was outstanding and the second while
\* none was, the first resolved the pending call and emitted no
\* 'hardware-measurement' event, and the second emits exactly one such event
\* and resolves no call.
C8_Original ==
  [][\A p \in Procs :
       (/\ proc[p].lastSpan.seen /\ proc[p].lastSpan.trigger
        /\ proc'[p].lastSpan.seen /\ ~proc'[p].lastSpan.trigger)
         => (/\ proc[p].lastSpan.resolved /\ proc[p].lastSpan.events = 0
             /\ proc'[p].lastSpan.events = 1 /\ ~proc'[p].lastSpan.resolved)]_vars

\* C9: a measure() call is never resolved with the data of a result span that
\* the script announced as hardware-triggered.
C9_Original ==
  \A c \in Calls :
    (calls[c].op = "measure" /\ calls[c].res = "resolved")
      => (~calls[c].val.Lab.hw /\ ~calls[c].val.spectral.hw)

\* the events handled for key k so far are an attach, a detach, and an attach
\* less than 3 s after the detach
Bounce(k) ==
  LET h == usbLog.hist[k] IN
  /\ Len(h) = 3
  /\ h[1].ev = "attach" /\ h[2].ev = "detach" /\ h[3].ev = "attach"
  /\ h[3].t - h[2].t < DebounceWindow

Connecting(k) == \E h \in mgr.connecting : deviceKey(h.u) = k

SupportedKeys ==
  {deviceKey(u) : u \in {v \in UsbDevices : isSupportedDevice(v.vendorId, v.productId)}}

\* C10 as stated: after attach, detach, attach within 3 s of one supported
\* key, the second attach was dropped and, once no connect() is pending,
\* exactly one registration has been made for the key.
C10_Original ==
  \A k \in SupportedKeys :
    (Bounce(k) /\ ~Connecting(k))
      => (usbLog.hist[k][3].dropped /\ usbLog.regs[k] = 1)

\* C10 amended: the second attach is dropped and at most one registration is
\* made; once no connect() is pending there is exactly one, unless the
\* connect() of the first attach was rejected, and then there is none.
C10_BounceSuppressed ==
  \A k \in SupportedKeys :
    Bounce(k)
      => /\ usbLog.hist[k][3].dropped
         /\ usbLog.regs[k] <= 1
         /\ ~Connecting(k) => usbLog.regs[k] + usbLog.fails[k] = 1

C10_Witness ==
  \E k \in SupportedKeys :
    Bounce(k) /\ ~Connecting(k) /\ usbLog.regs[k] = 1 /\ usbLog.hist[k][3].dropped


\* the manager's attach handler runs for device u in this step
AttachHandled(u) ==
  LET k == deviceKey(u) IN
  /\ Len(usbLog'.hist[k]) > Len(usbLog.hist[k])
  /\ usbLog'.hist[k][Len(usbLog'.hist[k])].ev = "attach"

\* an adapter is registered for device u: devices holds the id that
\* handleDeviceAttached builds for it (line 122)
Registered(u) ==
  /\ identifyDevice(u).ok
  /\ \E i \in DOMAIN mgr.devices :
       mgr.devices[i].id = deviceId(identifyDevice(u).model, u.deviceAddress)

\* C11: an attach event for a key whose connection is pending or whose adapter
\* is already registered is dropped: no adapter is constructed or connected,
\* and the registry and the active-device pointer are unchanged.
C11_Original ==
  [][\A u \in UsbDevices :
       (/\ AttachHandled(u)
        /\ (deviceKey(u) \in mgr.pendingConnections \/ Registered(u)))
         => (/\ adapters' = adapters
             /\ mgr'.connecting = mgr.connecting
             /\ mgr'.devices = mgr.devices
             /\ mgr'.activeDeviceId = mgr.activeDeviceId)]_vars


\* the ledger holds a record that has not expired
Calibrated == \E k \in DOMAIN calibrations : now <= calibrations[k].expiresAt

\* the last event handled for device u is its detach
Unplugged(u) ==
  LET h == usbLog.hist[deviceKey(u)] IN h # <<>> /\ h[Len(h)].ev = "detach"

\* C12: after a successful facade calibrate(), when the unit has been detached
\* and is attached again at another address before the record expires, the
\* calibration key of the adapter constructed at attach is one the ledger holds
\* a valid record under, whether or not the driver reported a serial number.
C12_Original ==
  [][\A u, v \in MovedDevices :
       (/\ Calibrated /\ mgr.devices = <<>>
        /\ Unplugged(u) /\ v.deviceAddress # u.deviceAddress
        /\ AttachHandled(v))
         => \A h \in mgr'.connecting \ mgr.connecting :
              getCalibrationStatus(calibrations, getCalibrationKey(adapters'[h.a]),
                                   now).calibrated]_vars


\* call c is made in this step, as a measure() on the facade
FacadeMeasureCalled(c) ==
  calls[c].op = "none" /\ calls'[c].op = "measure" /\ calls'[c].via = "facade"

\* C13: a facade measure() made while the ledger holds no valid record under
\* the device's calibration key (missing or expired) is rejected at once with
\* DEVICE_NOT_CALIBRATED: the monitor is not paused, nothing is waited for,
\* the adapter is not called, and no resume follows.
C13_NotCalibratedFailsFast ==
  [][\A c \in Calls :
       (/\ FacadeMeasureCalled(c)
        /\ ~getCalibrationStatus(calibrations,
                                 getCalibrationKey(adapters[calls'[c].a]),
                                 now).calibrated)
         => (/\ calls'[c].pc = "done" /\ calls'[c].out = "rejected"
             /\ calls'[c].err = "DEVICE_NOT_CALIBRATED"
             /\ ~calls'[c].paused /\ ~calls'[c].entered
             /\ detector' = detector /\ adapters' = adapters
             /\ spotread' = spotread /\ proc' = proc /\ stops' = stops
             /\ mq' = mq /\ calibrations' = calibrations)]_vars

\* a measure() was rejected because the record under the device's key expired
C13_Witness ==
  \E c \in Calls :
    /\ calls[c].op = "measure" /\ calls[c].err = "DEVICE_NOT_CALIBRATED"
    /\ getCalibrationKey(adapters[calls[c].a]) \in DOMAIN calibrations
    /\ getCalibrationStatus(calibrations, getCalibrationKey(adapters[calls[c].a]),
                            now).expired
    /\ ~detector.paused


\* the errors of the precondition checks: I1ProAdapter.js lines 116-122 and
\* 161-171, part_007 line 286
PreconditionErrors ==
  {"Device not connected", "Device is busy", "Device not calibrated",
   "DEVICE_NOT_CALIBRATED"}

\* C14: a facade calibrate() or measure() that fails a precondition (busy, not
\* connected, not calibrated / no active session) has not paused the hotplug
\* monitor, and so does not resume it either.
C14_Original ==
  \A c \in Calls :
    (calls[c].via = "facade" /\ calls[c].err \in PreconditionErrors)
      => (~calls[c].paused /\ ~calls[c].resumed)


\* the 60 s timer of the calibrate() call that spawned p fires in this step,
\* the session not having reached Ready
CalibrationTimerFires(p) ==
  /\ proc[p].calTimer /\ ~proc'[p].calTimer
  /\ proc'[p].st = proc[p].st
  /\ ~proc'[p].readyForMeasurement
  /\ proc[p].calCall # 0

\* C15: when the 60 s timer of a calibrate() call fires before Ready, the call
\* is rejected and the teardown of the session is under way (a stopSession()
\* is running on the subprocess), at whatever point of the dialogue it fires.
C15_Original ==
  [][\A p \in Procs :
       CalibrationTimerFires(p)
         => (/\ calls'[proc[p].calCall].res = "rejected"
             /\ \E i \in DOMAIN stops' : stops'[i].proc = p)]_vars


\* the spawn of process p is reported failed in this step ('error')
ErrorStep(p) ==
  /\ mq # <<>> /\ Head(mq) = [k |-> "spawned", c |-> p]
  /\ proc[p].st = "running" /\ proc'[p].st = "exited"

\* C16: when the subprocess exits, or fails to spawn, before the session
\* reached Ready, the pending calibrate() call is rejected and the session is
\* Closed: handle null, calibrated flag false, buffer cleared, 60 s timer
\* cancelled.
C16_ExitBeforeReady ==
  [][\A p \in Procs :
       (/\ CloseStep(p) \/ ErrorStep(p)
        /\ ~proc[p].readyForMeasurement
        /\ proc[p].calCall # 0
        /\ calls[proc[p].calCall].res = "pending")
         => (/\ calls'[proc[p].calCall].res = "rejected"
             /\ SessionClosed(spotread'[proc[p].owner])
             /\ spotread'[proc[p].owner].outputBuffer = <<>>
             /\ ~proc'[p].calTimer)]_vars

\* a calibrate() call was rejected by the 'close' of its subprocess, which had
\* reported the calibration as failed
C16_Witness ==
  \E c \in Calls :
    /\ calls[c].op = "calibrate" /\ calls[c].res = "rejected"
    /\ calls[c].err = "Calibration failed: process exited"
    /\ SessionClosed(spotread[calls[c].a])


\* the promise of the adapter's calibrate() awaited by facade call c has
\* settled and the facade continues in this step
FacadeCalibrateContinues(c) ==
  /\ calls[c].via = "facade" /\ calls[c].op = "calibrate"
  /\ calls[c].pc # "settle05" /\ calls'[c].pc = "settle05"

\* C17: a facade calibrate() on a freshly connected device (its subprocess is
\* the first one spawned) whose subprocess reports prompt, completion and
\* ready resolves with success, the session being Ready at that moment, and
\* the ledger then gains a record under the device's calibration key; the
\* ledger is written by nothing else and is unchanged when calibrate() fails.
C17_CalibrateWritesLedger ==
  /\ [][\A c \in Calls :
          (/\ calls[c].via = "facade" /\ calls[c].op = "calibrate"
           /\ calls[c].res = "pending" /\ calls'[c].res = "resolved"
           /\ \A q \in Procs : proc[q].calCall # c => proc[q].st = "none")
            => (/\ calls'[c].val.success
                /\ hasActiveSession(spotread'[calls[c].a])
                /\ proc'[spotread'[calls[c].a].expectProcess].readyForMeasurement)]_vars
  /\ [][\A c \in Calls :
          FacadeCalibrateContinues(c)
            => IF calls[c].res = "resolved"
                 THEN LET key == getCalibrationKey(adapters'[calls[c].a]) IN
                      /\ key \in DOMAIN calibrations'
                      /\ calibrations'[key].calibrated
                      /\ calibrations'[key].timestamp = now
                      /\ calibrations'[key].expiresAt = now + ExpiryWindow
                      /\ \A k \in DOMAIN calibrations \ {key} :
                           calibrations'[k] = calibrations[k]
                 ELSE calibrations' = calibrations]_vars
  /\ [][calibrations' # calibrations
          => \E c \in Calls :
               FacadeCalibrateContinues(c) /\ calls[c].res = "resolved"]_vars

\* a facade calibrate() has resolved, the session is Ready and the ledger
\* holds the record under the adapter's key
C17_Witness ==
  \E c \in Calls :
    /\ calls[c].via = "facade" /\ calls[c].op = "calibrate"
    /\ calls[c].res = "resolved" /\ calls[c].pc = "settle05"
    /\ hasActiveSession(spotread[calls[c].a])
    /\ getCalibrationKey(adapters[calls[c].a]) \in DOMAIN calibrations
    /\ adapters[calls[c].a].serialNumber = DriverSerial


\* process p is spawned in this step
Spawned(p) == proc[p].st = "none" /\ proc'[p].st = "running"

\* C18: a subprocess is spawned for calibrate() only once the session the
\* wrapper held has been stopped to completion (no handle is held when the
\* spawn happens), and the new session starts clean: empty buffer, calibrated
\* flag false, no measurement pending.
C18_Original ==
  [][\A p \in Procs :
       Spawned(p)
         => LET a == proc'[p].owner IN
            /\ spotread[a].expectProcess = 0
            /\ spotread'[a].expectProcess = p
            /\ spotread'[a].outputBuffer = <<>>
            /\ ~spotread'[a].isCalibrated
            /\ ~spotread'[a].measurementPending
            /\ spotread'[a].pendingResolve = 0]_vars

\* the measure() call c, accepted by the wrapper, settles in this step
MeasureSettles(c) ==
  /\ calls[c].op = "measure" /\ calls[c].via = "direct"
  /\ calls[c].pc = "awaitMeasure"
  /\ calls[c].res = "pending" /\ calls'[c].res # "pending"

\* the data of v were printed after call c sent its trigger: they stand in
\* the buffer behind the place it had reached when the call was made
AfterTrigger(c, v) ==
  LET buf == spotread'[calls[c].a].outputBuffer
      new == SubSeq(buf, calls[c].startIdx + 1, Len(buf))
  IN /\ v.ok
     /\ v.Lab # NoId => \E i \in DOMAIN new : new[i] = Tok("START", v.Lab)
     /\ v.spectral # NoId => \E i \in DOMAIN new : new[i] = Tok("END", v.spectral)

\* C19: from Ready, measure() sends exactly one trigger and leaves the call
\* pending; the call then settles by being resolved with the classifier's
\* result for data printed after its trigger or by being rejected with the
\* measurement timeout; either way the session is Ready afterwards (handle
\* kept, calibrated, no measurement pending) and the subprocess is neither
\* killed nor sent a quit.
C19_Original ==
  /\ [][\A c \in Calls :
          LET a == calls'[c].a
              p == spotread[a].expectProcess
          IN (MeasureCalled(c) /\ SessionReady(a) /\ proc[p].st = "running")
               => /\ proc'[p].stdin = Append(proc[p].stdin, "MEASURE")
                  /\ calls'[c].res = "pending"
                  /\ spotread'[a].measurementPending]_vars
  /\ [][\A c \in Calls :
          MeasureSettles(c)
            => LET a == calls[c].a
                   p == spotread[a].expectProcess
               IN /\ \/ calls'[c].res = "resolved" /\ AfterTrigger(c, calls'[c].val)
                     \/ /\ calls'[c].res = "rejected"
                        /\ calls'[c].err = "Measurement timeout"
                  /\ p # 0 /\ spotread'[a].expectProcess = p
                  /\ spotread'[a].isCalibrated
                  /\ ~spotread'[a].measurementPending
                  /\ proc'[p].st = proc[p].st
                  /\ proc'[p].stdin = proc[p].stdin]_vars

\* call c is made in this step, as a stopSession() on the wrapper itself
StopCalled(c) ==
  calls[c].op = "none" /\ calls'[c].op = "stop" /\ calls'[c].via = "direct"

\* the stopSession() invocations on process p whose promise is not resolved
PendingStops(ss, p) == {i \in DOMAIN ss : ss[i].proc = p /\ ss[i].timer}

\* a stopSession() invoked on process p completes in this step: 'close' of p
\* is delivered (line 521) or its 5 s timer fires (line 512)
StopCompletes(p) ==
  Cardinality(PendingStops(stops', p)) < Cardinality(PendingStops(stops, p))

\* C20: stopSession() with no subprocess changes nothing and completes at
\* once; with a subprocess, in whatever state the session is, it arms its 5 s
\* timer, and when it completes (on 'close' or on the timer) the subprocess
\* it was invoked on is no longer running and the session is fully cleaned:
\* handle null, buffer empty, not calibrated, no measurement pending, no
\* pending call reference, no script.
C20_Original ==
  /\ [][\A c \in Calls :
          StopCalled(c)
            => LET a == calls'[c].a
                   p == spotread[a].expectProcess
               IN /\ spotread' = spotread
                  /\ p = 0 => (proc' = proc /\ stops' = stops /\ mq' # <<>>)
                  /\ p # 0 => \E i \in PendingStops(stops', p) :
                                 stops'[i].waiter = c]_vars
  /\ [][\A p \in Procs :
          StopCompletes(p)
            => /\ proc'[p].st # "running"
               /\ spotread'[proc[p].owner] = InitSpotread]_vars

\* process q belongs to a calibrate() that failed: it never reported ready,
\* its call is settled, and its 'close' has not been delivered
FailedSession(q) ==
  /\ proc[q].st \in {"running", "exited"} /\ ~proc[q].readyForMeasurement
  /\ proc[q].calCall # 0 => calls[proc[q].calCall].res = "rejected"

\* the finally block of facade call c resumes the monitor in this step
FacadeFinishes(c) ==
  calls[c].via = "facade" /\ calls[c].pc = "settle05" /\ calls'[c].pc = "done"

\* C21: when a facade calibrate() that reached the driver has failed, the
\* adapter's busy flag is cleared as the facade continues and the monitor is
\* resumed when the facade finishes; a calibrate() that reaches the adapter
\* with no other operation in flight is accepted; and the session of a later
\* calibrate() is not torn down by what is left of the failed one: 'close'
\* of the failed subprocess leaves the handle of the later session in place.
C21_Original ==
  /\ [][\A c \in Calls :
          (/\ FacadeCalibrateContinues(c) /\ calls[c].entered
           /\ calls[c].res = "rejected")
            => ~adapters'[calls[c].a].busy]_vars
  /\ [][\A c \in Calls :
          (/\ FacadeFinishes(c) /\ calls[c].op = "calibrate"
           /\ calls[c].res = "rejected")
            => (~detector'.paused /\ detector'.listeners = 1)]_vars
  /\ [][\A c \in Calls :
          (/\ calls[c].via = "facade" /\ calls[c].op = "calibrate"
           /\ calls[c].pc = "settle3" /\ calls'[c].pc # "settle3"
           /\ ~adapters[calls[c].a].busy)
            => calls'[c].entered]_vars
  /\ [][\A q \in Procs :
          LET a == proc[q].owner IN
          (/\ CloseStep(q) /\ FailedSession(q)
           /\ spotread[a].expectProcess \notin {0, q})
            => spotread'[a].expectProcess = spotread[a].expectProcess]_vars

\* the manager's detach handler runs for device u in this step
DetachHandled(u) ==
  LET k == deviceKey(u) IN
  /\ Len(usbLog'.hist[k]) > Len(usbLog.hist[k])
  /\ usbLog'.hist[k][Len(usbLog'.hist[k])].ev = "detach"

\* the adapters registered at the USB address of device u
RegisteredAt(u) ==
  {mgr.devices[i].a : i \in {j \in DOMAIN mgr.devices :
                               adapters[mgr.devices[j].a].usbAddress = u.deviceAddress}}

\* C22: when handleDeviceDetached has run for the USB address of a registered
\* adapter, the adapter is no longer in the registry, the active-device
\* pointer does not refer to it, and every subprocess it owns that is still
\* running is being stopped (a stopSession() on it is under way), whatever
\* the state of its session.
C22_Original ==
  [][\A u \in MovedDevices : \A i \in DOMAIN mgr.devices :
       LET a == mgr.devices[i].a IN
       (DetachHandled(u) /\ a \in RegisteredAt(u))
         => /\ \A j \in DOMAIN mgr'.devices : mgr'.devices[j].a # a
            /\ mgr'.activeDeviceId # mgr.devices[i].id
            /\ \A p \in Procs :
                 (proc'[p].owner = a /\ proc'[p].st = "running")
                   => PendingStops(stops', p) # {}]_vars

\* C23: an attachment key is in pendingConnections exactly while a run of
\* handleDeviceAttached for it is awaiting connect(), at most one run per
\* key; a run that drops the event or fails reserves nothing when it is
\* over, registers no adapter and leaves the active-device pointer alone.
C23_PendingWhileConnecting ==
  /\ [](/\ mgr.pendingConnections = {deviceKey(h.u) : h \in mgr.connecting}
        /\ \A g, h \in mgr.connecting : deviceKey(g.u) = deviceKey(h.u) => g = h)
  /\ [][\A k \in Keys :
          usbLog'.fails[k] > usbLog.fails[k]
            => /\ k \in mgr.pendingConnections /\ k \notin mgr'.pendingConnections
               /\ mgr'.devices = mgr.devices
               /\ mgr'.activeDeviceId = mgr.activeDeviceId]_vars
  /\ [][\A u \in UsbDevices :
          (AttachHandled(u) /\ mgr'.connecting = mgr.connecting)
            => /\ mgr'.pendingConnections = mgr.pendingConnections
               /\ mgr'.devices = mgr.devices
               /\ mgr'.activeDeviceId = mgr.activeDeviceId]_vars

\* connect() has been rejected for a key that is reserved by no run now, while
\* another device is registered and active
C23_Witness ==
  \E k \in Keys :
    /\ usbLog.fails[k] > 0 /\ k \notin mgr.pendingConnections
    /\ mgr.devices # <<>> /\ mgr.activeDeviceId # <<>>

\* C24: no attached or detached event is emitted for a device that is not in
\* the allow-list (the manager's handlers do not run for it), and a
\* notification for such a device changes neither the registry nor the
\* active-device pointer.
C24_Original ==
  [][\A u \in UsbDevices :
       ~isSupportedDevice(u.vendorId, u.productId)
         => /\ ~AttachHandled(u) /\ ~DetachHandled(u)
            /\ usbLog'.hist[deviceKey(u)] # usbLog.hist[deviceKey(u)]
                 => (/\ mgr'.devices = mgr.devices
                     /\ mgr'.activeDeviceId = mgr.activeDeviceId)]_vars

\* C25: pause() on a paused monitor and resume() on a monitor that is not
\* paused change nothing, so a second pause() or resume() in a row leaves the
\* monitor's state and the listener subscriptions as the first one did.
C25_Idempotent ==
  /\ [](/\ pause(pause(detector)) = pause(detector)
        /\ resume(resume(detector)) = resume(detector))
  /\ [][\A c \in Calls :
          (calls[c].op = "none" /\ calls'[c].paused /\ detector.paused)
            => detector' = detector]_vars
  /\ [][\A c \in Calls :
          (FacadeFinishes(c) /\ ~detector.paused) => detector' = detector]_vars

\* two facade calls have each called pause(), and the one that finished has
\* called resume(): the resume() of the other one finds the monitor resumed
C25_Witness ==
  \E c, d \in Calls :
    /\ c # d /\ calls[c].paused /\ calls[d].paused
    /\ calls[c].resumed /\ calls[d].pc = "settle05"
    /\ ~detector.paused /\ detector.listeners = 1

\* the one event handled for key k is an attach the manager did not drop, and
\* its connect() has settled
AttachedOnce(k) ==
  LET h == usbLog.hist[k] IN
  /\ Len(h) = 1 /\ h[1].ev = "attach" /\ ~h[1].dropped
  /\ ~Connecting(k)

\* the registry entry the claim expects for device u
ExpectedModel(u) ==
  IF u.productId = 8192 THEN "i1Pro"
  ELSE IF u.productId = 8193 THEN "i1Pro2"
  ELSE IF u.productId = 8199 THEN "i1Pro3"
  ELSE ""

\* the registration made in a step for the run h is the one the claim
\* expects: one entry, named X-Rite, the model of the product id, the address
RegistersAsExpected ==
  [][\A h \in mgr.connecting :
       usbLog'.regs[deviceKey(h.u)] > usbLog.regs[deviceKey(h.u)]
         => LET id == <<Str("X-Rite"), Str(ExpectedModel(h.u)), Num(h.u.deviceAddress)>>
            IN /\ h.u.vendorId = 2417 /\ ExpectedModel(h.u) # ""
               /\ Cardinality({i \in DOMAIN mgr'.devices : mgr'.devices[i].id = id}) = 1
               /\ \A i \in DOMAIN mgr'.devices :
                    mgr'.devices[i].id = id
                      => (/\ mgr'.devices[i].a = h.a
                          /\ adapters'[h.a].model = ExpectedModel(h.u)
                          /\ adapters'[h.a].usbAddress = h.u.deviceAddress)]_vars

\* C26 as stated: one attach of a device with vendor 0x0971 and product
\* 0x2000 / 0x2001 / 0x2007 yields exactly one registration, with make X-Rite
\* and model i1Pro / i1Pro2 / i1Pro3; any other device yields none.
C26_Original ==
  /\ [](\A u \in UsbDevices :
          LET k == deviceKey(u) IN
          IF u.vendorId = 2417 /\ u.productId \in {8192, 8193, 8199}
            THEN AttachedOnce(k) => usbLog.regs[k] = 1
            ELSE usbLog.regs[k] = 0)
  /\ RegistersAsExpected

\* C26: one attach of a device with vendor 0x0971 and product 0x2000 /
\* 0x2001 / 0x2007 whose connect() was not rejected yields exactly one
\* registration, with make X-Rite and model i1Pro / i1Pro2 / i1Pro3; any
\* other device yields none.
C26_Identity ==
  /\ [](\A u \in UsbDevices :
          LET k == deviceKey(u) IN
          IF u.vendorId = 2417 /\ u.productId \in {8192, 8193, 8199}
            THEN (AttachedOnce(k) /\ usbLog.fails[k] = 0) => usbLog.regs[k] = 1
            ELSE usbLog.regs[k] = 0)
  /\ RegistersAsExpected

\* the i1Pro2 at address 1 has been attached once and is registered as
\* X-Rite i1Pro2
C26_Witness ==
  LET k == <<Num(2417), Num(8193), Num(1)>> IN
  /\ AttachedOnce(k) /\ usbLog.regs[k] = 1
  /\ \E i \in DOMAIN mgr.devices :
       /\ mgr.devices[i].id = <<Str("X-Rite"), Str("i1Pro2"), Num(1)>>
       /\ adapters[mgr.devices[i].a].model = "i1Pro2"

\* C27: the record a successful calibration stores has expiresAt equal to its
\* timestamp plus the configured expiry window (calibration.expiryHours of the
\* Config store); getCalibrationStatus(key) reports calibrated while the current
\* time has not passed expiresAt, not calibrated and expired once it has, and
\* not calibrated without expired for a key that has no record.
C27_Original ==
  /\ [][\A k \in DOMAIN calibrations' :
          (k \notin DOMAIN calibrations \/ calibrations'[k] # calibrations[k])
            => calibrations'[k].expiresAt =
                 calibrations'[k].timestamp
                   + getCalibrationExpiryHours(config) * 60 * 60]_vars
  /\ [](\A k \in DOMAIN calibrations \cup {getCalibrationKey(adapters[a]) : a \in Adapters} :
          LET status == getCalibrationStatus(calibrations, k, now) IN
          IF k \notin DOMAIN calibrations
            THEN ~status.calibrated /\ ~status.expired
          ELSE IF now <= calibrations[k].expiresAt
            THEN status.calibrated /\ ~status.expired
          ELSE ~status.calibrated /\ status.expired)

MeasurementCompleted ==
  [i \in DOMAIN hwEvents |->
     [source |-> "hardware",
      deviceId |-> deviceId(adapters[hwEvents[i].a].model,
                            adapters[hwEvents[i].a].usbAddress),
      results |-> hwEvents[i].data]]

\* C30: when the END marker of a result span that the script announced as
\* hardware-triggered is read from the subprocess of a registered device, the
\* manager emits exactly one measurement:completed event, with source
\* 'hardware', the id the device is registered under and the data of that
\* span, whether or not a request is pending; when the END marker of a
\* software-triggered span is read, and in every other step, it emits none.
C30_Original ==
  /\ [][\A p \in Procs : \A n \in 1..MaxPipe :
          LET a == proc[p].owner
              text == SubSeq(proc[p].pipe, 1, n)
              ends == {i \in DOMAIN text : text[i].k = "END"}
          IN (/\ OnStdoutData(p, n)
              /\ \E i \in DOMAIN mgr.devices : mgr.devices[i].a = a)
               => /\ \A i \in ends :
                       text[i].id.hw
                         => /\ Len(MeasurementCompleted') = 1
                            /\ MeasurementCompleted'[1].source = "hardware"
                            /\ \E j \in DOMAIN mgr.devices :
                                 /\ mgr.devices[j].a = a
                                 /\ mgr.devices[j].id = MeasurementCompleted'[1].deviceId
                            /\ MeasurementCompleted'[1].results.spectral = text[i].id
                  /\ (\A i \in ends : ~text[i].id.hw) => MeasurementCompleted' = <<>>]_vars
  /\ [][MeasurementCompleted' # <<>>
          => \E p \in Procs : \E n \in 1..MaxPipe : OnStdoutData(p, n)]_vars

\* C31: when parseConsoleOutput finds no data in the software-triggered result
\* span that a pending measure() call set off (in the 'data' listener as the
\* END marker is read, or in the poll of the call), the call is rejected with
\* the parse failure, no measurement is pending afterwards, the session is
\* Ready or Closed, and no other call is touched.
C31_Original ==
  [][\A c \in Calls :
       LET a == calls[c].a
           buf == spotread[a].outputBuffer
       IN (/\ calls[c].op = "measure" /\ calls[c].res = "pending"
           /\ spotread[a].pendingResolve = c
           /\ \/ \E p \in Procs : \E n \in 1..MaxPipe :
                   LET all == buf \o SubSeq(proc[p].pipe, 1, n) IN
                   /\ OnStdoutData(p, n) /\ proc[p].owner = a
                   /\ CompletesSpan(buf, SubSeq(proc[p].pipe, 1, n))
                   /\ LastIndexOf(all, "SW_DET") > calls[c].startIdx
                   /\ LastIndexOf(all, "START") > LastIndexOf(all, "SW_DET")
                   /\ ~parseConsoleOutput(SubSeq(all, LastIndexOf(all, "START"),
                                                 LastIndexOf(all, "END"))).ok
              \/ /\ CheckForResult(c)
                 /\ Includes(SubSeq(buf, calls[c].startIdx + 1, Len(buf)), "SW_DET")
                 /\ Includes(SubSeq(buf, calls[c].startIdx + 1, Len(buf)), "END")
                 /\ ~parseConsoleOutput(SubSeq(buf, calls[c].startIdx + 1, Len(buf))).ok)
            => /\ calls'[c].res = "rejected"
               /\ calls'[c].err = "No measurement data found in output"
               /\ ~spotread'[a].measurementPending
               /\ SessionReady(a)' \/ SessionClosed(spotread'[a])
               /\ \A d \in Calls \ {c} : calls'[d] = calls[d]]_vars

\* C32 (as stated): a result span rendered from a curve and a Lab/XYZ triple in
\* the token, the colon or the declared-range layout parses back to the same
\* curve and the same Lab and XYZ.
C32_Original ==
  LET text == parser.consoleOutput
      Of(k) == SelectSeq(text, LAMBDA l : l.k = k)
      \* the span holds one curve, in the layout whose lines are of the kinds ks
      OneLayout(ks) ==
        /\ \E i \in DOMAIN text : text[i].k \in ks
        /\ \A i \in DOMAIN text : text[i].k \in ks \cup {"xyz", "lab"}
        /\ \A i, j \in DOMAIN text :
             (text[i].k \in ks /\ text[j].k = text[i].k /\ i # j) =>
               (text[i].k = "tok" \/ text[i].k = "colon") /\ text[i].a # text[j].a
      \* the curve the span was rendered from
      Listed(ls) == [wl \in {ls[i].a : i \in DOMAIN ls} |->
                       (CHOOSE l \in {ls[i] : i \in DOMAIN ls} : l.a = wl).vals[1]]
      Ranged == LET h == Of("header")[1]
                    step == IF h.n > 1 THEN (h.b - h.a) \div (h.n - 1) ELSE 10
                IN [wl \in {h.a + (i - 1) * step : i \in 1..h.n} |->
                      Of("values")[1].vals[((wl - h.a) \div step) + 1]]
      Recovers(curve) ==
        /\ parser.result.ok
        /\ parser.result.spectral = curve
        /\ parser.result.Lab = (IF Of("lab") = <<>> THEN <<>> ELSE Of("lab")[1].vals)
        /\ parser.result.XYZ = (IF Of("xyz") = <<>> THEN <<>> ELSE Of("xyz")[1].vals)
  IN parser.result.done =>
       /\ OneLayout({"tok"}) => Recovers(Listed(Of("tok")))
       /\ OneLayout({"colon"}) => Recovers(Listed(Of("colon")))
       /\ OneLayout({"header", "values"}) => Recovers(Ranged)


\* C33 (as stated): a measure() call is resolved only by a result span that
\* completed after the call sent its trigger (a marker of the span stands in
\* the buffer behind the place reached when the call was made), and never by
\* a span that already resolved another call.
C33_Original ==
  [][\A c \in Calls :
       (MeasureSettles(c) /\ calls'[c].res = "resolved")
         => LET v == calls'[c].val
                buf == spotread'[calls[c].a].outputBuffer
                new == SubSeq(buf, calls[c].startIdx + 1, Len(buf))
            IN /\ v.ok
               /\ \E i \in DOMAIN new :
                    /\ new[i].k \in {"START", "END"}
                    /\ new[i].id \in {v.Lab, v.spectral} \ {NoId}
               /\ \A d \in Calls \ {c} :
                    (calls[d].op = "measure" /\ calls[d].res = "resolved")
                      => calls[d].val # v]_vars


\* C34 (as stated): calibrate() resolves, and the session is Ready, only
\* when the completion marker of the session's subprocess has been read from
\* its stream and a ready marker after it.
C34_Original ==
  /\ [][\A c \in Calls :
          (/\ calls[c].op = "calibrate" /\ calls[c].via = "direct"
           /\ calls[c].res = "pending" /\ calls'[c].res = "resolved")
            => \E p \in Procs :
                 /\ proc[p].calCall = c
                 /\ proc'[p].calibrationComplete
                 /\ proc'[p].readyForMeasurement]_vars
  /\ [](\A a \in Adapters :
          SessionReady(a) =>
            /\ proc[spotread[a].expectProcess].calibrationComplete
            /\ proc[spotread[a].expectProcess].readyForMeasurement)


\* C35 (as stated): of the spectral strategies the first that yields a
\* non-empty set, in the order token form, colon form, declared range with
\* its value list, two-column lines, determines the curve; Lab and XYZ are
\* what the result line alone gives.  Stated for spans without a bare value
\* list and whose declared-range values, if any, end the span.
C35_Original ==
  LET text == parser.consoleOutput
      Only(ks) == SelectSeq(text, LAMBDA l : l.k \in ks)
      Yield(ks) == parseConsoleText(Only(ks)).spectral
      First(yields) ==
        IF \E i \in DOMAIN yields : DOMAIN yields[i] # {}
          THEN yields[CHOOSE i \in DOMAIN yields :
                        /\ DOMAIN yields[i] # {}
                        /\ \A j \in DOMAIN yields : DOMAIN yields[j] # {} => i <= j]
          ELSE <<>>
  IN (/\ parser.result.done
      /\ \A i \in DOMAIN text : text[i].k # "block"
      /\ \A i \in DOMAIN text : text[i].k = "values" => i = Len(text))
     => /\ parser.result.spectral =
             First(<<Yield({"tok"}), Yield({"colon"}),
                     Yield({"header", "values"}), Yield({"cols"})>>)
        /\ parser.result.Lab = parseConsoleText(Only({"xyz", "lab"})).Lab
        /\ parser.result.XYZ = parseConsoleText(Only({"xyz", "lab"})).XYZ


\* C36 (as stated): every attach event handled for a key less than 3 s after
\* the most recent detach event of that key was dropped.
C36_Original ==
  \A k \in DOMAIN usbLog.hist :
    LET h == usbLog.hist[k] IN
    \A i, j \in DOMAIN h :
      (/\ j < i /\ h[i].ev = "attach" /\ h[j].ev = "detach"
       /\ \A m \in DOMAIN h : (j < m /\ m < i) => h[m].ev # "detach"
       /\ h[i].t - h[j].t < DebounceWindow)
        => h[i].dropped


\* C37 (as stated): the 'close' of a subprocess other than the one the handle
\* refers to leaves handle, calibrated flag, buffer and script of the session
\* alone; while the handle is null no subprocess of the controller is
\* running, and at most one is running at any time.
C37_Original ==
  /\ [][\A p \in Procs :
          LET a == proc[p].owner IN
          (CloseStep(p) /\ spotread[a].expectProcess \notin {0, p})
            => /\ spotread'[a].expectProcess = spotread[a].expectProcess
               /\ spotread'[a].isCalibrated = spotread[a].isCalibrated
               /\ spotread'[a].outputBuffer = spotread[a].outputBuffer
               /\ spotread'[a].scriptPath = spotread[a].scriptPath]_vars
  /\ [](\A a \in Adapters :
          LET mine == {p \in Procs : proc[p].st = "running" /\ proc[p].owner = a}
          IN /\ spotread[a].expectProcess = 0 => mine = {}
             /\ Cardinality(mine) <= 1)


\* C38 (as stated): the monitor's listeners for USB attach and detach are
\* subscribed exactly when monitoring is true and paused is false, and never
\* more than once.
C38_Original ==
  /\ (detector.listeners > 0) <=> (detector.monitoring /\ ~detector.paused)
  /\ detector.listeners <= 1

\* C39 (as stated): the active-device pointer is null or the id of an
\* adapter in the registry.
C39_Original ==
  mgr.activeDeviceId # <<>> =>
    \E i \in DOMAIN mgr.devices : mgr.devices[i].id = mgr.activeDeviceId


====
